---- MODULE Spec2Model ----
(***************************************************************************)
(* Model of the completion protocol engine of lab_instruments              *)
(* (lab_instruments/core/scpi/common_scpi.py): CommonSCPI.send,            *)
(* CommonSCPI.query and SCPIError.                                         *)
(*                                                                         *)
(* One invocation of send/query is a sequence of steps separated by the    *)
(* blocking calls of the code (transport write/query, time.sleep).  Time   *)
(* is counted in ticks; a transport call takes between minDelay and        *)
(* MaxIODelay ticks, time.sleep(interval) takes interval ticks.            *)
(***************************************************************************)
EXTENDS Integers, Sequences, FiniteSets, TLC

\* ---------------------------------------------------------------- bounds
MaxTimeout == 4
MaxInterval == 2
MaxIODelay == 1
ExtraPolls == 2
\* polls issued by one invocation in the model; enough for every timeout
\* <= MaxTimeout to be reached when each iteration takes at least one tick
MaxPolls == MaxTimeout + ExtraPolls

\* ------------------------------------------------------- inputs, replies
Commands == {"*TRG", "*OPC"}
\* texts the transport can return for the query of the command itself
Responses == { <<"R","1">>, <<"2">> }
NotANumber == <<"n","o","t","-","a","-","n","u","m","b","e","r">>
\* texts the transport can return for "*ESR?"
EsrReplies ==
    { <<"2">>, <<"3","4">>, <<"0">>, <<"1">>, <<"3","2">>, <<"3">>,
      <<"2","5","5">>, <<"2","5","8">>, <<"0","2">>, <<"+","2">>,
      <<" ","2">>, <<"-","2">>, <<"2",".","0">>, <<"2"," ","2">>,
      <<"-">>, <<>>, NotANumber }

\* Python None, as a text value
None == <<"None">>

\* ------------------------------------------------------------ int(text)
Whitespace == {" ", "\t", "\n", "\r"}
DigitChars == <<"0","1","2","3","4","5","6","7","8","9">>
IsDigit(c) == \E i \in 1..10 : DigitChars[i] = c
DigitVal(c) == (CHOOSE i \in 1..10 : DigitChars[i] = c) - 1

RECURSIVE LStrip(_)
LStrip(s) == IF s # <<>> /\ Head(s) \in Whitespace THEN LStrip(Tail(s)) ELSE s

RECURSIVE RStrip(_)
RStrip(s) ==
    IF s # <<>> /\ s[Len(s)] \in Whitespace
    THEN RStrip(SubSeq(s, 1, Len(s) - 1))
    ELSE s

RECURSIVE DigitsVal(_)
DigitsVal(s) ==
    IF s = <<>> THEN 0
    ELSE 10 * DigitsVal(SubSeq(s, 1, Len(s) - 1)) + DigitVal(s[Len(s)])

AllDigits(s) == s # <<>> /\ \A i \in 1..Len(s) : IsDigit(s[i])

\* Python int(str): surrounding whitespace ignored, optional sign, then
\* decimal digits; anything else raises ValueError (ok = FALSE).
ParseInt(text) ==
    LET t == RStrip(LStrip(text))
        signed == t # <<>> /\ Head(t) \in {"+", "-"}
        body == IF signed THEN Tail(t) ELSE t
    IN  IF AllDigits(body)
        THEN [ok |-> TRUE,
              val |-> IF signed /\ Head(t) = "-" THEN 0 - DigitsVal(body)
                      ELSE DigitsVal(body)]
        ELSE [ok |-> FALSE, val |-> 0]

\* ------------------------------------------------------------ SCPIError
ESR_MEANINGS ==
    << "Operation Complete", "Request Control", "Query Error",
       "Device Dependent Error", "Execution Error", "Command Error",
       "User Request", "Power On" >>

Pow2(i) == CASE i = 0 -> 1 [] i = 1 -> 2 [] i = 2 -> 4 [] i = 3 -> 8
             [] i = 4 -> 16 [] i = 5 -> 32 [] i = 6 -> 64 [] i = 7 -> 128

\* (v >> i) & 1 on Python integers (arithmetic shift, two's complement)
BitOf(v, i) == (v \div Pow2(i)) % 2

RECURSIVE DecodeFrom(_, _)
DecodeFrom(v, i) ==
    IF i > 7 THEN <<>>
    ELSE (IF BitOf(v, i) = 1 THEN <<ESR_MEANINGS[i + 1]>> ELSE <<>>)
         \o DecodeFrom(v, i + 1)

\* variant: tests bit i + 1 for the name of bit i
decode_esr_shifted(esr_value) == DecodeFrom(esr_value \div 2, 0)

decode_esr(esr_value) == DecodeFrom(esr_value, 0)

\* variant: no separate wording for an empty flag list
format_message_alwaysFlags(esr_value, flags) ==
    [esr |-> esr_value, form |-> "Flags", listed |-> flags]

format_message(esr_value, flags) ==
    [esr |-> esr_value,
     form |-> IF flags = <<>> THEN "No error flags set" ELSE "Flags",
     listed |-> flags]

\* SCPIError(esr_value, message=None)
SCPIError(esr_value, message) ==
    LET flags == decode_esr(esr_value)
    IN  [type |-> "SCPIError", esr_value |-> esr_value, flags |-> flags,
         message |-> IF message # None
                     THEN [esr |-> esr_value, form |-> "Failed to parse ESR value",
                           listed |-> message]
                     ELSE format_message(esr_value, flags)]

TimeoutError ==
    [type |-> "TimeoutError", esr_value |-> 0, flags |-> <<>>,
     message |-> [esr |-> 0, form |-> "SCPI command did not complete in time (OPC/ESR)",
                  listed |-> <<>>]]

\* an error raised by the transport (conn.write / conn.query)
TransportError ==
    [type |-> "ConnectionError", esr_value |-> 0, flags |-> <<>>,
     message |-> [esr |-> 0, form |-> "transport", listed |-> <<>>]]

NoExc ==
    [type |-> "none", esr_value |-> 0, flags |-> <<>>,
     message |-> [esr |-> 0, form |-> "", listed |-> <<>>]]

\* ---------------------------------------------------------------- state
VARIABLES
    pc,        \* position of the caller: idle, write_cmd, query_cmd,
               \* write_opc, poll, sleep, done
    op,        \* "send" or "query"
    command,   \* the command argument
    safe,      \* the safe argument
    timeout,   \* the timeout argument, in ticks
    interval,  \* the interval argument, in ticks
    minDelay,  \* least duration of a transport call during this invocation
    now,       \* time.time(), in ticks since the call
    start,     \* the local variable start
    ioTime,    \* time spent in transport calls since start was taken
    polls,     \* number of "*ESR?" queries issued by this invocation
    sleeps,    \* number of time.sleep calls of this invocation
    log,       \* transport operations issued by this invocation, in order
    esr_str,   \* the local variable esr_str (last status reply)
    response,  \* the local variable response of query
    outcomes,  \* terminal states reached by this invocation, in order
    retval,    \* value returned to the caller (None when nothing returned)
    exc,       \* exception raised to the caller (NoExc when none)
    faults,    \* transport calls of this invocation that raised
    \* -- one Transport object (core/interfaces)
    kind,        \* variant: "socket", "serial" or "visa"
    terminator,  \* self.terminator, the byte sequence
    handle,      \* self.sock / self.ser / self.inst: "None" or "obj"
    is_open,     \* whether the backend channel of the handle is open
    rm,          \* visa: self.rm is set
    scope,       \* inside a "with" block of the transport
    last,        \* the last call on the transport and what it did
    prev,        \* the call before it
    rpc,         \* "idle", or "reading" while read() is in its loop, or
                 \* "eos" after a read that met end-of-stream
    data,        \* bytes accumulated by the read in progress / last read
    \* -- one call of the connection factory
    config,      \* the device configuration (Empty when there is none)
    method,      \* the caller's method argument
    kwargs,      \* the caller's keyword overrides
    made,        \* what the factory produced
    dev,         \* the caller's device name
    \* -- the device registry (class attributes of DeviceRegistry)
    devices,         \* _devices: name -> descriptor
    typed_connects,  \* _typed_connects: name -> typed connect function
    stats,           \* _discovery_stats
    rlast            \* the last registry operation and how it ended

vars == << pc, op, command, safe, timeout, interval, minDelay, now, start,
           ioTime, polls, sleeps, log, esr_str, response, outcomes, retval,
           exc, faults,
           kind, terminator, handle, is_open, rm, scope, last, prev, rpc, data,
           config, method, kwargs, made, dev,
           devices, typed_connects, stats, rlast >>

evars == << pc, op, command, safe, timeout, interval, minDelay, now, start,
            ioTime, polls, sleeps, log, esr_str, response, outcomes, retval,
            exc, faults >>

tvars == << kind, terminator, handle, is_open, rm, scope, last, prev, rpc, data >>

rvars == << devices, typed_connects, stats, rlast >>

fvars == << config, method, kwargs, made, dev, rvars >>

\* record of a transport call that has not happened
NoCall ==
    [call |-> "none", result |-> "ok", connBefore |-> FALSE, dOpen |-> 0,
     dClose |-> 0, dIO |-> 0, fault |-> "none", body |-> "none",
     value |-> None]

NoPrev == [call |-> "none", result |-> "ok", connBefore |-> FALSE, dOpen |-> 0]

\* an absent mapping (no configuration, no keyword arguments)
Empty == [k \in {} |-> None]

\* the transport as constructed by SocketConnection(host, port)
\* (socket_interface.py lines 11-16)
TransportParked ==
    /\ kind = "socket"
    /\ terminator = <<"\r", "\n">>
    /\ handle = "None"
    /\ is_open = FALSE
    /\ rm = FALSE
    /\ scope = FALSE
    /\ last = NoCall
    /\ prev = NoPrev
    /\ rpc = "idle"
    /\ data = <<>>

\* no factory call made
NotMade ==
    [state |-> "none", call |-> "none", variant |-> "none", params |-> Empty,
     error |-> "none", form |-> "none", listed |-> {}, wrapper |-> "none"]

\* _discovery_stats = {}
NoStats ==
    [set |-> FALSE, found |-> FALSE, attempted |-> 0, successful |-> 0,
     failed |-> 0, errors |-> <<>>]

\* no registry operation yet
NoRCall == [call |-> "none", raised |-> "none", name |-> "none"]

\* the registry as the class statement leaves it (registry.py lines 100-102)
RegistryParked ==
    /\ devices = Empty
    /\ typed_connects = Empty
    /\ stats = NoStats
    /\ rlast = NoRCall

\* no factory call made, nothing registered
FactoryParked ==
    /\ config = Empty
    /\ method = "None"
    /\ kwargs = Empty
    /\ made = NotMade
    /\ dev = "None"
    /\ RegistryParked

args == << op, command, safe, timeout, interval, minDelay >>

EngineInit ==
    /\ pc = "idle"
    /\ op = "send"
    /\ command = "*TRG"
    /\ safe = TRUE
    /\ timeout = 0
    /\ interval = 0
    /\ minDelay = 0
    /\ now = 0
    /\ start = 0
    /\ ioTime = 0
    /\ polls = 0
    /\ sleeps = 0
    /\ log = <<>>
    /\ esr_str = None
    /\ response = None
    /\ outcomes = <<>>
    /\ retval = None
    /\ exc = NoExc
    /\ faults = 0

Init == EngineInit /\ TransportParked /\ FactoryParked

\* The caller invokes send(command, safe, timeout, interval) or
\* query(command, safe, timeout, interval) on an engine that is not inside
\* another invocation.
Call ==
    /\ UNCHANGED << faults, tvars, fvars >>
    /\ pc = "idle"
    /\ \E o \in {"send", "query"}, c \in Commands, s \in BOOLEAN,
          t \in 0..MaxTimeout, i \in 0..MaxInterval, m \in 0..MaxIODelay :
          /\ op' = o
          /\ command' = c
          /\ safe' = s
          /\ timeout' = t
          /\ interval' = i
          /\ minDelay' = m
          /\ pc' = IF o = "send" THEN "write_cmd" ELSE "query_cmd"
    /\ UNCHANGED << now, start, ioTime, polls, sleeps, log, esr_str, response,
                    outcomes, retval, exc >>

\* The caller has taken the result (or the exception) of the invocation; its
\* locals are gone and the engine can be called again.
Return ==
    /\ faults' = 0
    /\ UNCHANGED << tvars, fvars >>
    /\ pc = "done"
    /\ pc' = "idle"
    /\ op' = "send"
    /\ command' = "*TRG"
    /\ safe' = TRUE
    /\ timeout' = 0
    /\ interval' = 0
    /\ minDelay' = 0
    /\ now' = 0
    /\ start' = 0
    /\ ioTime' = 0
    /\ polls' = 0
    /\ sleeps' = 0
    /\ log' = <<>>
    /\ esr_str' = None
    /\ response' = None
    /\ outcomes' = <<>>
    /\ retval' = None
    /\ exc' = NoExc

\* what send returns when safe is false (line 97: a bare return)
SendUnsafeReturn == None

\* variant: the safe argument is ignored
SendWrite_alwaysSafe ==
    /\ UNCHANGED << faults, tvars, fvars >>
    /\ pc = "write_cmd"
    /\ \E d \in minDelay..MaxIODelay : now' = now + d
    /\ log' = Append(log, <<"write", command>>)
    /\ pc' = "write_opc"
    /\ UNCHANGED << args, start, ioTime, polls, sleeps, esr_str, response,
                    outcomes, retval, exc >>

\* send, lines 95-97: self.conn.write(command); if not safe: return
SendWrite ==
    /\ UNCHANGED << faults, tvars, fvars >>
    /\ pc = "write_cmd"
    /\ \E d \in minDelay..MaxIODelay : now' = now + d
    /\ log' = Append(log, <<"write", command>>)
    /\ IF safe
       THEN /\ pc' = "write_opc"
            /\ UNCHANGED << outcomes, retval >>
       ELSE /\ pc' = "done"
            /\ outcomes' = Append(outcomes, "returned")
            /\ retval' = SendUnsafeReturn
    /\ UNCHANGED << args, start, ioTime, polls, sleeps, esr_str, response, exc >>

\* what query returns when safe is false (line 121: a bare return)
QueryUnsafeReturn(resp) == None

\* query, lines 119-121: response = self.conn.query(command);
\* if not safe: return
QueryCommand ==
    /\ UNCHANGED << faults, tvars, fvars >>
    /\ pc = "query_cmd"
    /\ \E d \in minDelay..MaxIODelay : now' = now + d
    /\ log' = Append(log, <<"query", command>>)
    /\ \E r \in Responses :
          /\ response' = r
          /\ IF safe
             THEN /\ pc' = "write_opc"
                  /\ UNCHANGED << outcomes, retval >>
             ELSE /\ pc' = "done"
                  /\ outcomes' = Append(outcomes, "returned")
                  /\ retval' = QueryUnsafeReturn(r)
    /\ UNCHANGED << args, start, ioTime, polls, sleeps, esr_str, exc >>

\* the completion-request sentinel
Sentinel == "*OPC"

\* send lines 98-99, query lines 122-123:
\* self.conn.write("*OPC"); start = time.time()
WriteOpc ==
    /\ UNCHANGED << faults, tvars, fvars >>
    /\ pc = "write_opc"
    /\ \E d \in minDelay..MaxIODelay :
          /\ now' = now + d
          /\ start' = now + d
    /\ log' = Append(log, <<"write", Sentinel>>)
    /\ pc' = "poll"
    /\ UNCHANGED << args, ioTime, polls, sleeps, esr_str, response, outcomes,
                    retval, exc >>

\* ------------------------------------------------- the completion handshake
\* variant: takes bit value 1 for the completion signal
IsComplete_bit0(esr) == BitOf(esr, 0) = 1

\* variant: bit value 1 (named Operation Complete in the table) also counts
IsComplete_anyOfTwo(esr) == BitOf(esr, 0) = 1 \/ BitOf(esr, 1) = 1

\* esr & 0b10 (lines 106, 130)
IsComplete(esr) == BitOf(esr, 1) = 1

\* esr & ~0b10 (lines 107, 131): esr with bit 1 cleared
OtherBits(esr) == esr - 2 * BitOf(esr, 1)

\* variant: fails as soon as the elapsed time reaches the timeout
TimedOut_ge(tmo, elapsed) == tmo # 0 /\ elapsed >= tmo

\* variant: no test for a zero timeout
TimedOut_noZeroGuard(tmo, elapsed) == elapsed > tmo

\* lines 110-111, 134-135: timeout != 0.0 and time.time() - start > timeout
TimedOut(tmo, elapsed) == tmo # 0 /\ elapsed > tmo

\* variant: an unparsable reply counts as "not complete yet"
HandshakeCheck_parseSkipped(text, elapsed, tmo) ==
    LET p == ParseInt(text)
    IN  IF p.ok /\ IsComplete(p.val)
        THEN IF OtherBits(p.val) # 0 THEN <<"status_error">>
             ELSE <<"completed">>
        ELSE IF TimedOut(tmo, elapsed) THEN <<"timeout">>
             ELSE <<>>

\* variant: the status error is noted but the loop still ends by break
HandshakeCheck_noStop(text, elapsed, tmo) ==
    LET p == ParseInt(text)
    IN  IF ~p.ok THEN <<"parse_error">>
        ELSE IF IsComplete(p.val)
             THEN IF OtherBits(p.val) # 0 THEN <<"status_error", "completed">>
                  ELSE <<"completed">>
             ELSE IF TimedOut(tmo, elapsed) THEN <<"timeout">>
                  ELSE <<>>

\* variant: the elapsed time is tested before the completion bit
HandshakeCheck_timeoutFirst(text, elapsed, tmo) ==
    LET p == ParseInt(text)
    IN  IF ~p.ok THEN <<"parse_error">>
        ELSE IF TimedOut(tmo, elapsed) THEN <<"timeout">>
        ELSE IF IsComplete(p.val)
             THEN IF OtherBits(p.val) # 0 THEN <<"status_error">>
                  ELSE <<"completed">>
             ELSE <<>>

\* One pass of the loop body after the reply text arrived (lines 102-112,
\* 126-136): the terminal states this pass reaches, in order; <<>> when the
\* loop goes on to time.sleep.
HandshakeCheck(text, elapsed, tmo) ==
    LET p == ParseInt(text)
    IN  IF ~p.ok THEN <<"parse_error">>
        ELSE IF IsComplete(p.val)
             THEN IF OtherBits(p.val) # 0 THEN <<"status_error">>
                  ELSE <<"completed">>
             ELSE IF TimedOut(tmo, elapsed) THEN <<"timeout">>
                  ELSE <<>>

\* the exception raised for a failure state (lines 105, 108, 112)
Raised(event, text) ==
    CASE event = "parse_error" -> SCPIError(-1, text)
      [] event = "status_error" -> SCPIError(ParseInt(text).val, None)
      [] event = "timeout" -> TimeoutError
      [] OTHER -> NoExc

\* variant: the sentinel is written again in every iteration
PollOps_resend == << <<"write", "*OPC">>, <<"query", "*ESR?">> >>

\* the transport operations of one loop iteration (lines 101, 125)
PollOps == << <<"query", "*ESR?">> >>

\* variant: returns the last status reply
QuerySafeReturn_esr(resp, text) == text

\* what query returns after the loop ended by break (line 138)
QuerySafeReturn(resp, text) == resp

\* send lines 100-112, query lines 124-136: one status poll and its checks
Poll ==
    /\ UNCHANGED << faults, tvars, fvars >>
    /\ pc = "poll"
    /\ polls < MaxPolls
    /\ \E reply \in EsrReplies, d \in minDelay..MaxIODelay :
          LET t == now + d
              events == HandshakeCheck(reply, t - start, timeout)
          IN  /\ now' = t
              /\ ioTime' = ioTime + d
              /\ esr_str' = reply
              /\ outcomes' = outcomes \o events
              /\ pc' = IF events = <<>> THEN "sleep" ELSE "done"
              /\ exc' = IF events = <<>> THEN exc ELSE Raised(events[1], reply)
              /\ retval' = IF events # <<>> /\ events[Len(events)] = "completed"
                                /\ op = "query"
                           THEN QuerySafeReturn(response, reply)
                           ELSE retval
    /\ log' = log \o PollOps
    /\ polls' = polls + 1
    /\ UNCHANGED << args, start, sleeps, response >>

\* send line 113, query line 137: time.sleep(interval)
Sleep ==
    /\ UNCHANGED << faults, tvars, fvars >>
    /\ pc = "sleep"
    /\ now' = now + interval
    /\ sleeps' = sleeps + 1
    /\ pc' = "poll"
    /\ UNCHANGED << args, start, ioTime, polls, log, esr_str, response,
                    outcomes, retval, exc >>

\* variant: a failing status poll is caught and the loop goes on
TransportFault_swallowed ==
    /\ faults' = faults + 1
    /\ UNCHANGED << tvars, fvars >>
    /\ pc \in {"write_cmd", "query_cmd", "write_opc", "poll"}
    /\ pc = "poll" => polls < MaxPolls
    /\ log' = CASE pc = "write_cmd" -> Append(log, <<"write", command>>)
                [] pc = "query_cmd" -> Append(log, <<"query", command>>)
                [] pc = "write_opc" -> Append(log, <<"write", Sentinel>>)
                [] pc = "poll" -> Append(log, <<"query", "*ESR?">>)
    /\ polls' = IF pc = "poll" THEN polls + 1 ELSE polls
    /\ IF pc = "poll"
       THEN /\ pc' = "sleep"
            /\ UNCHANGED << exc, outcomes >>
       ELSE /\ exc' = TransportError
            /\ outcomes' = Append(outcomes, "transport_fault")
            /\ pc' = "done"
    /\ UNCHANGED << args, now, start, ioTime, sleeps, esr_str, response, retval >>

\* A transport call of the invocation (lines 95, 98, 101, 119, 122, 125)
\* raises: the exception leaves send/query at once.
TransportFault ==
    /\ faults' = faults + 1
    /\ UNCHANGED << tvars, fvars >>
    /\ pc \in {"write_cmd", "query_cmd", "write_opc", "poll"}
    /\ pc = "poll" => polls < MaxPolls
    /\ log' = CASE pc = "write_cmd" -> Append(log, <<"write", command>>)
                [] pc = "query_cmd" -> Append(log, <<"query", command>>)
                [] pc = "write_opc" -> Append(log, <<"write", Sentinel>>)
                [] pc = "poll" -> Append(log, <<"query", "*ESR?">>)
    /\ polls' = IF pc = "poll" THEN polls + 1 ELSE polls
    /\ exc' = TransportError
    /\ outcomes' = Append(outcomes, "transport_fault")
    /\ pc' = "done"
    /\ UNCHANGED << args, now, start, ioTime, sleeps, esr_str, response, retval >>

Next ==
    \/ Call
    \/ Return
    \/ SendWrite
    \/ QueryCommand
    \/ WriteOpc
    \/ Poll
    \/ Sleep
    \/ TransportFault

Spec == Init /\ [][Next]_vars

\* Every transport call and every sleep of an invocation returns.
FairSpec ==
    /\ Init /\ [][Next]_vars
    /\ WF_vars(SendWrite)
    /\ WF_vars(QueryCommand)
    /\ WF_vars(WriteOpc)
    /\ WF_vars(Poll)
    /\ WF_vars(Sleep)

TypeOK ==
    /\ pc \in {"idle", "write_cmd", "query_cmd", "write_opc", "poll", "sleep", "done"}
    /\ op \in {"send", "query"}
    /\ polls \in 0..MaxPolls
    /\ sleeps \in 0..MaxPolls
    /\ now >= start

\* ================================================================ claims
\* vocabulary of the properties
Elapsed == now - start
GotReply == esr_str # None
ReplyParses == GotReply /\ ParseInt(esr_str).ok
ReplyVal == ParseInt(esr_str).val
HasBit(v, i) == (v \div (2 ^ i)) % 2 = 1
Faulted == exc.type = "ConnectionError"
InCall == pc # "idle"
Range(seq) == { seq[i] : i \in 1..Len(seq) }
NamedBits(v) == { ESR_MEANINGS[i + 1] : i \in { j \in 0..7 : HasBit(v, j) } }

\* C1: a status reply with bit value 2 set together with any other bit makes
\* send/query fail with an SCPIError built from that value, whose decoded
\* flags are exactly the named conditions of the bits set in the reply, in
\* bit order; for the reply 34 these are the conditions of bits 1 and 5.
C1_StatusErrorFlags ==
    (InCall /\ ReplyParses /\ HasBit(ReplyVal, 1) /\ ReplyVal # 2)
    => /\ pc = "done"
       /\ outcomes = <<"status_error">>
       /\ exc.type = "SCPIError"
       /\ exc.esr_value = ReplyVal
       /\ Range(exc.flags) = NamedBits(ReplyVal)
       /\ Len(exc.flags) = Cardinality(NamedBits(ReplyVal))
       /\ exc.message.listed = exc.flags
       /\ retval = None
       /\ (ReplyVal = 34 => exc.flags = << ESR_MEANINGS[2], ESR_MEANINGS[6] >>)

C1_Witness ==
    /\ pc = "done"
    /\ op = "send"
    /\ esr_str = <<"3","4">>
    /\ exc.flags = <<"Request Control", "Command Error">>

\* C2: when the first status reply is 2, send(safe=true) is completed
\* without error after exactly one status query and no sleep; the only time
\* spent since the handshake started is that of the one query.
C2_FirstReplyTwo ==
    (op = "send" /\ polls = 1 /\ ReplyParses /\ ReplyVal = 2)
    => /\ pc = "done"
       /\ outcomes = <<"completed">>
       /\ exc = NoExc
       /\ sleeps = 0
       /\ log = << <<"write", command>>, <<"write", "*OPC">>, <<"query", "*ESR?">> >>
       /\ Elapsed = ioTime
       /\ Elapsed <= MaxIODelay

C2_Witness ==
    /\ pc = "done"
    /\ op = "send"
    /\ polls = 1
    /\ esr_str = <<"2">>
    /\ outcomes = <<"completed">>
    /\ interval > 0

\* C3: a status reply that does not parse as an integer ends the handshake
\* on that very poll with the parse failure carrying the unparsed text: no
\* sleep follows it, and it is never a timeout, whatever timeout and
\* elapsed time are.
C3_ParseFailure ==
    (InCall /\ GotReply /\ ~ParseInt(esr_str).ok)
    => /\ pc = "done"
       /\ outcomes = <<"parse_error">>
       /\ exc.type = "SCPIError"
       /\ exc.message.form = "Failed to parse ESR value"
       /\ exc.message.listed = esr_str
       /\ sleeps = polls - 1
       /\ Len(log) = 2 + polls
       /\ retval = None

C3_Witness ==
    /\ pc = "done"
    /\ esr_str = NotANumber
    /\ outcomes = <<"parse_error">>
    /\ timeout # 0
    /\ Elapsed > timeout
    /\ polls > 1

\* C4: with a non-zero timeout T, a send(safe=true) that ends on a reply
\* lacking the completion bit ends with the timeout error; the timeout error
\* is raised only when the time since the handshake started exceeds T, and,
\* when the transport replies take no time, at most one interval after T.
C4_TimeoutWindow ==
    /\ (pc = "done" /\ op = "send" /\ safe /\ ~Faulted /\ ReplyParses
           /\ ~HasBit(ReplyVal, 1))
       => /\ outcomes = <<"timeout">>
          /\ exc = TimeoutError
    /\ (op = "send" /\ "timeout" \in Range(outcomes))
       => /\ timeout # 0
          /\ Elapsed > timeout
          /\ (ioTime = 0 => Elapsed <= timeout + interval)
          /\ ReplyParses /\ ~HasBit(ReplyVal, 1)
    /\ (op = "send" /\ safe /\ pc = "sleep" /\ timeout # 0) => Elapsed <= timeout

C4_Witness ==
    /\ pc = "done"
    /\ op = "send"
    /\ outcomes = <<"timeout">>
    /\ timeout = 4
    /\ interval = 1
    /\ ioTime = 0
    /\ Elapsed = 5

HandshakeStates == {"completed", "status_error", "parse_error", "timeout"}

\* the terminal state and what the caller receives agree
OutcomeMatchesResult ==
    /\ outcomes[1] = "completed" <=> exc = NoExc
    /\ outcomes[1] \in {"status_error", "parse_error"} <=> exc.type = "SCPIError"
    /\ outcomes[1] = "timeout" <=> exc.type = "TimeoutError"

C5_ExactlyOneTerminal ==
    /\ pc # "done" => outcomes = <<>>
    /\ (pc = "done" /\ safe /\ ~Faulted)
       => /\ Len(outcomes) = 1
          /\ outcomes[1] \in HandshakeStates
          /\ OutcomeMatchesResult

\* advancing time: every loop iteration takes at least one tick
TimeAdvances == interval + minDelay > 0

\* C5: a safe send/query whose transport calls all return reaches exactly
\* one of completed, status error, parse error, timeout (never two, and no
\* terminal state before the invocation is over); with a non-zero timeout
\* and advancing time every such invocation eventually reaches it.
C5_Terminal ==
    /\ [] C5_ExactlyOneTerminal
    /\ (pc \in {"write_cmd", "query_cmd"} /\ safe /\ timeout # 0 /\ TimeAdvances)
       ~> (pc = "done" /\ Len(outcomes) = 1)

C5_Witness ==
    /\ pc = "done"
    /\ safe
    /\ timeout # 0
    /\ TimeAdvances
    /\ outcomes = <<"timeout">>
    /\ polls = MaxTimeout + 2

\* C6: query(command, safe=false) returns the reply of
\* transport.query(command) and runs no handshake.
C6_UnsafeQueryReturnsResponse ==
    (pc = "done" /\ op = "query" /\ ~safe /\ ~Faulted)
    => /\ retval = response
       /\ response \in Responses
       /\ log = << <<"query", command>> >>
       /\ polls = 0
       /\ sleeps = 0

\* C7: query(command, safe=true) first issues transport.query(command), then
\* the sentinel and the status polls as send does; it returns the reply of
\* that first query exactly when the handshake is completed, and on every
\* failure it raises and returns nothing.
C7_SafeQuery ==
    (op = "query" /\ safe)
    => /\ \A i \in 1..Len(log) :
             log[i] = CASE i = 1 -> <<"query", command>>
                        [] i = 2 -> <<"write", "*OPC">>
                        [] OTHER -> <<"query", "*ESR?">>
       /\ Len(log) >= 1 /\ ~(Faulted /\ Len(log) = 1) => response \in Responses
       /\ pc = "done"
          => /\ outcomes = <<"completed">> <=> (retval = response /\ retval # None)
             /\ outcomes = <<"completed">> => (exc = NoExc /\ ReplyVal = 2)
             /\ outcomes # <<"completed">> => (retval = None /\ exc # NoExc)

C7_Witness ==
    /\ pc = "done"
    /\ op = "query"
    /\ safe
    /\ outcomes = <<"completed">>
    /\ retval = <<"R","1">>
    /\ esr_str = <<"0","2">>
    /\ polls = 2

\* C8: send(command, safe=true) issues write(command), then write("*OPC"),
\* then only "*ESR?" queries: at least one before it ends, one per poll,
\* and the command and the sentinel once each however many polls occur.
C8_SendOrder ==
    (op = "send" /\ safe)
    => /\ \A i \in 1..Len(log) :
             log[i] = CASE i = 1 -> <<"write", command>>
                        [] i = 2 -> <<"write", "*OPC">>
                        [] OTHER -> <<"query", "*ESR?">>
       /\ pc \in {"poll", "sleep"} => Len(log) = 2 + polls
       /\ (pc = "done" /\ ~Faulted) => (polls >= 1 /\ Len(log) = 2 + polls)

C8_Witness ==
    /\ pc = "done"
    /\ op = "send"
    /\ safe
    /\ ~Faulted
    /\ polls = 3
    /\ Len(log) = 5

\* C9: send(command, safe=false) writes the command and returns: one
\* transport write, no "*OPC", no "*ESR?", no sleep, nothing raised.
C9_UnsafeSend ==
    (op = "send" /\ ~safe /\ InCall)
    => /\ pc \in {"write_cmd", "done"}
       /\ polls = 0
       /\ sleeps = 0
       /\ (pc = "done" /\ ~Faulted)
          => /\ log = << <<"write", command>> >>
             /\ outcomes = <<"returned">>
             /\ retval = None
             /\ exc = NoExc

C9_Witness ==
    /\ pc = "done"
    /\ op = "send"
    /\ ~safe
    /\ log = << <<"write", "*TRG">> >>
    /\ outcomes = <<"returned">>

\* C10: with timeout = 0 the handshake never ends in the timeout state; a
\* reply that parses and lacks the completion bit is always followed by
\* sleep and another poll, and the handshake ends only by completion,
\* status error, parse error or a transport fault.
C10_ZeroTimeout ==
    (timeout = 0 /\ safe /\ InCall)
    => /\ "timeout" \notin Range(outcomes)
       /\ exc.type # "TimeoutError"
       /\ (ReplyParses /\ ~HasBit(ReplyVal, 1) /\ ~Faulted) => pc \in {"sleep", "poll"}
       /\ pc = "done"
          => outcomes \in { <<"completed">>, <<"status_error">>,
                            <<"parse_error">>, <<"transport_fault">> }

C10_Witness ==
    /\ timeout = 0
    /\ safe
    /\ pc = "sleep"
    /\ polls = MaxPolls
    /\ Elapsed > MaxTimeout
    /\ ~HasBit(ReplyVal, 1)

\* C19: a transport call that raises inside send/query ends the invocation
\* at once with that error: at most one call fails per invocation, nothing
\* is returned, and no transport call or sleep follows the failed one.
C19_FaultPropagates ==
    /\ faults <= 1
    /\ faults = 1
       => /\ pc = "done"
          /\ exc = TransportError
          /\ outcomes = <<"transport_fault">>
          /\ retval = None
          /\ Len(log) = (IF polls > 0 THEN 2 + polls
                         ELSE IF response # None THEN 2 ELSE Len(log))
          /\ Len(log) \in 1..(2 + polls)
          /\ polls > 0 => sleeps = polls - 1
          /\ polls = 0 => sleeps = 0
    /\ Faulted <=> faults = 1

C19_Witness ==
    /\ faults = 1
    /\ pc = "done"
    /\ polls = 3
    /\ sleeps = 2
    /\ exc = TransportError

\* ======================================================= the Transport
\* (lab_instruments/core/interfaces/socket_interface.py, serial_interface.py,
\*  core/interfaces/visa_interface.py, core/interfaces/connection.py)

\* ---------------------------------------------------------------- bounds
\* most bytes one read accumulates in the model
MaxRead == 3
\* most bytes one recv delivers in the model
MaxChunk == 2

Variants == {"socket", "serial", "visa"}
CR == <<"\r">>
LF == <<"\n">>
CRLF == <<"\r", "\n">>
LFCR == <<"\n", "\r">>
\* configured terminators: the four named ones and a literal
Terminators == { CR, LF, CRLF, LFCR, <<";">> }
Bytes == {"1", "\r", "\n", ";"}
Chunks == UNION { [1..n -> Bytes] : n \in 1..MaxChunk }
\* messages a VISA backend read delivers (termination already removed)
Messages == { <<"1">>, <<>>, <<"1", " ">> }

EndsWith(d, t) ==
    /\ Len(d) >= Len(t)
    /\ SubSeq(d, Len(d) - Len(t) + 1, Len(d)) = t

\* str.strip()
Strip(d) == RStrip(LStrip(d))

R(c, res, cb, o, cl, io, f, b, v) ==
    [call |-> c, result |-> res, connBefore |-> cb, dOpen |-> o,
     dClose |-> cl, dIO |-> io, fault |-> f, body |-> b, value |-> v]

Shift ==
    [call |-> last.call, result |-> last.result,
     connBefore |-> last.connBefore, dOpen |-> last.dOpen]

\* is_connected() (socket line 67-68, serial 58-59, visa 58-59)
is_connected(k, h, o) ==
    CASE k = "socket" -> h # "None"
      [] k = "serial" -> h # "None" /\ o
      [] k = "visa" -> h # "None"

IsConnected == is_connected(kind, handle, is_open)

\* variant: connect() without its early return
already_connected_never(k, h, o) == FALSE

\* the early return of connect() (socket line 19, serial 19, visa 17)
already_connected(k, h, o) ==
    CASE k = "socket" -> h # "None"
      [] k = "serial" -> h # "None" /\ o
      [] k = "visa" -> h # "None"

\* how a backend open can end, by variant: socket.create_connection raises
\* socket.timeout or OSError; serial.Serial raises SerialException; for
\* visa the failure is in ResourceManager(), in open_resource() or in one
\* of the three attribute assignments that follow it
OpenEnds(k) ==
    CASE k = "socket" -> {"ok", "timeout", "other"}
      [] k = "serial" -> {"ok", "other"}
      [] k = "visa" -> {"ok", "rm", "open", "settings"}

\* connect() past the early return (socket lines 21-26, serial 21-24,
\* visa 19-26): the new handle state and the error raised
Opened(k, h, o, m, end) ==
    CASE end = "ok" ->
           [handle |-> "obj", is_open |-> TRUE,
            rm |-> (k = "visa"), result |-> "ok", fault |-> "none"]
      [] end = "timeout" ->
           [handle |-> h, is_open |-> o, rm |-> m,
            result |-> "Timeout", fault |-> "timeout"]
      [] end = "other" ->
           [handle |-> h, is_open |-> o, rm |-> m,
            result |-> "IOError", fault |-> "other"]
      [] end = "rm" ->
           [handle |-> h, is_open |-> o, rm |-> m,
            result |-> "IOError", fault |-> "other"]
      [] end = "open" ->
           [handle |-> h, is_open |-> o, rm |-> TRUE,
            result |-> "IOError", fault |-> "other"]
      [] end = "settings" ->
           [handle |-> "obj", is_open |-> TRUE, rm |-> TRUE,
            result |-> "IOError", fault |-> "other"]

\* connect(), called directly (name "connect") or by __enter__ ("enter")
DoConnect(name) ==
    /\ rpc = "idle"
    /\ prev' = Shift
    /\ data' = <<>>
    /\ IF already_connected(kind, handle, is_open)
       THEN /\ last' = R(name, "ok", IsConnected, 0, 0, 0, "none", "none", None)
            /\ UNCHANGED << handle, is_open, rm >>
       ELSE \E end \in OpenEnds(kind) :
               LET n == Opened(kind, handle, is_open, rm, end)
               IN  /\ handle' = n.handle
                   /\ is_open' = n.is_open
                   /\ rm' = n.rm
                   /\ last' = R(name, n.result, IsConnected, 1, 0, 0,
                                n.fault, "none", None)
    /\ UNCHANGED << kind, terminator, rpc, evars, fvars >>

Connect ==
    /\ DoConnect("connect")
    /\ UNCHANGED scope

\* ConnectionInterface.__enter__ (connection.py lines 4-6) and
\* CommonSCPI.__enter__ (common_scpi.py lines 8-10), which calls it
Enter ==
    /\ ~scope
    /\ DoConnect("enter")
    /\ scope' = (last'.result = "ok")

\* variant: the backend close is called without the test
needs_close_always(k, h, o) == TRUE

\* variant: disconnect() drops the handle without closing it
needs_close_never(k, h, o) == FALSE

\* the test before the backend close (socket line 30, serial 30, visa 29)
needs_close(k, h, o) ==
    CASE k = "socket" -> h # "None"
      [] k = "serial" -> h # "None" /\ o
      [] k = "visa" -> h # "None"

\* the error disconnect() raises when the backend close raises: socket
\* and serial wrap it (lines 32-33), visa lets it through (line 30)
CloseError(k) == IF k = "visa" THEN "Raw" ELSE "IOError"

\* whether the handle is cleared after the backend close raised (socket
\* line 34, serial 32, visa 31-32 are skipped by the raise)
ClearedAfterFailedClose == FALSE

\* disconnect(), called directly or by __exit__ with the error of the body
DoDisconnect(name, b) ==
    /\ rpc = "idle"
    /\ prev' = Shift
    /\ data' = <<>>
    /\ IF ~needs_close(kind, handle, is_open)
       THEN /\ handle' = "None"
            /\ is_open' = FALSE
            /\ rm' = FALSE
            /\ last' = R(name, IF b = "none" THEN "ok" ELSE b, IsConnected,
                         0, 0, 0, "none", b, None)
       ELSE IF handle = "None"
       THEN \* None.close(): AttributeError
            /\ last' = R(name, "Raw", IsConnected, 0, 1, 0, "other", b, None)
            /\ UNCHANGED << handle, is_open, rm >>
       ELSE \/ /\ handle' = "None"
               /\ is_open' = FALSE
               /\ rm' = FALSE
               /\ last' = R(name, IF b = "none" THEN "ok" ELSE b, IsConnected,
                            0, 1, 0, "none", b, None)
            \/ /\ handle' = IF ClearedAfterFailedClose THEN "None" ELSE handle
               /\ is_open' \in (IF ClearedAfterFailedClose THEN {FALSE} ELSE BOOLEAN)
               /\ rm' = rm
               /\ last' = R(name, CloseError(kind), IsConnected, 0, 1, 0,
                            "other", b, None)
    /\ UNCHANGED << kind, terminator, rpc, evars, fvars >>

Disconnect ==
    /\ DoDisconnect("disconnect", "none")
    /\ UNCHANGED scope

\* ConnectionInterface.__exit__ (connection.py lines 8-9) and
\* CommonSCPI.__exit__ (common_scpi.py lines 12-13): the body of the "with"
\* block ended normally or by raising; __exit__ returns None, so the error
\* of the body goes on to the caller unless disconnect() raises itself.
Exit ==
    /\ scope
    /\ \E b \in {"none", "BodyError"} : DoDisconnect("exit", b)
    /\ scope' = FALSE

\* variant: write/read/query without their guard
not_connected_never(k, h, o) == FALSE

\* the guard of write/read/query (socket lines 37, 47; serial 35, 45;
\* visa 35, 43, 51)
not_connected(k, h, o) ==
    CASE k = "socket" -> ~is_connected(k, h, o) \/ h = "None"
      [] k = "serial" -> ~is_connected(k, h, o) \/ h = "None"
      [] k = "visa" -> ~is_connected(k, h, o)

\* the except clauses of write/read/query: the error raised for a fault
\* the backend reports (socket lines 41-44, 57-60; serial 39-42, 47-50;
\* visa 39-40, 47-48, 55-56)
MapFault(k, f) ==
    CASE f = "none" -> "ok"
      [] f = "timeout" -> (IF k = "visa" THEN "IOError" ELSE "Timeout")
      [] f = "other" -> "IOError"

\* faults the backend can report for an I/O call on the present handle: a
\* handle whose channel is closed fails every call
IOFaults(o, all) == IF o THEN all ELSE {"other"}

\* write(command)
Write ==
    /\ rpc = "idle"
    /\ prev' = Shift
    /\ data' = <<>>
    /\ IF not_connected(kind, handle, is_open)
       THEN last' = R("write", "Closed", IsConnected, 0, 0, 0, "none", "none", None)
       ELSE \E f \in IOFaults(is_open, {"none", "timeout", "other"}) :
               last' = R("write", MapFault(kind, f), IsConnected, 0, 0, 1, f,
                         "none", None)
    /\ UNCHANGED << kind, terminator, handle, is_open, rm, scope, rpc, evars, fvars >>

\* the line end io readline() of pyserial waits for
ReadlineEnd == LF

\* the condition that ends the read loop once bytes have arrived: socket
\* line 52 (data.endswith(terminator_bytes)); serial line 46 (readline)
ReadComplete(k, d, t) ==
    CASE k = "socket" -> EndsWith(d, t)
      [] k = "serial" -> EndsWith(d, ReadlineEnd)
      [] k = "visa" -> TRUE

\* read(), up to its first backend call; visa: the whole of it
\* (inst.read() returns one message, termination removed, or raises)
DoRead(name, io, f0) ==
    IF f0 # "none"
    THEN /\ last' = R(name, MapFault(kind, f0), IsConnected, 0, 0, io, f0, "none", None)
         /\ UNCHANGED << rpc, data >>
    ELSE IF kind = "visa"
    THEN /\ \E f \in IOFaults(is_open, {"none", "timeout", "other"}) :
            IF f = "none"
            THEN \E m \in Messages :
                    /\ data' = m \o terminator
                    /\ last' = R(name, "ok", IsConnected, 0, 0, io + 1, "none",
                                 "none", Strip(m))
            ELSE /\ data' = <<>>
                 /\ last' = R(name, MapFault(kind, f), IsConnected, 0, 0, io + 1,
                              f, "none", None)
         /\ UNCHANGED rpc
    ELSE /\ data' = <<>>
         /\ rpc' = "reading"
         /\ last' = R(name, "pending", IsConnected, 0, 0, io, "none", "none", None)

Read ==
    /\ rpc = "idle"
    /\ prev' = Shift
    /\ IF not_connected(kind, handle, is_open)
       THEN /\ last' = R("read", "Closed", IsConnected, 0, 0, 0, "none", "none", None)
            /\ data' = <<>>
            /\ UNCHANGED rpc
       ELSE DoRead("read", 0, "none")
    /\ UNCHANGED << kind, terminator, handle, is_open, rm, scope, evars, fvars >>

\* query(command): write then read (socket lines 63-65, serial 54-56);
\* visa: inst.query (lines 50-56)
Query ==
    /\ rpc = "idle"
    /\ prev' = Shift
    /\ IF not_connected(kind, handle, is_open)
       THEN /\ last' = R("query", "Closed", IsConnected, 0, 0, 0, "none", "none", None)
            /\ data' = <<>>
            /\ UNCHANGED rpc
       ELSE \E f \in IOFaults(is_open, {"none", "timeout", "other"}) :
               IF f # "none" THEN /\ DoRead("query", 1, f)
                                  /\ data' = <<>>
               ELSE DoRead("query", 1, "none")
    /\ UNCHANGED << kind, terminator, handle, is_open, rm, scope, evars, fvars >>

\* the read in progress returns data.decode(errors='ignore').strip()
Finish(d, f) ==
    /\ data' = d
    /\ rpc' = "idle"
    /\ last' = [last EXCEPT !.result = "ok", !.dIO = @ + 1, !.fault = f,
                            !.value = Strip(d)]

\* One backend receive of the read in progress: socket lines 52-60
\* (sock.recv(1024)); serial line 46 (readline reads byte by byte and ends
\* at the line end or at an empty read, which is what a timeout gives).
Recv ==
    /\ rpc = "reading"
    /\ \/ \E c \in Chunks :
             /\ Len(data) + Len(c) <= MaxRead
             /\ kind = "serial" => Len(c) = 1
             /\ IF ReadComplete(kind, data \o c, terminator)
                THEN Finish(data \o c, "none")
                ELSE /\ data' = data \o c
                     /\ last' = [last EXCEPT !.dIO = @ + 1]
                     /\ UNCHANGED rpc
       \/ Finish(data, "eos")
       \/ \E f \in (IF kind = "socket" THEN {"timeout", "other"} ELSE {"other"}) :
             /\ rpc' = "idle"
             /\ last' = [last EXCEPT !.result = MapFault(kind, f),
                                     !.dIO = @ + 1, !.fault = f]
             /\ UNCHANGED data
    /\ UNCHANGED << kind, terminator, handle, is_open, rm, scope, prev, evars, fvars >>

\* a transport of any variant and terminator, as its constructor leaves it
\* (socket lines 11-16, serial 11-16, visa 9-14)
TInit ==
    /\ EngineInit
    /\ FactoryParked
    /\ kind \in Variants
    /\ terminator \in Terminators
    /\ handle = "None"
    /\ is_open = FALSE
    /\ rm = FALSE
    /\ scope = FALSE
    /\ last = NoCall
    /\ prev = NoPrev
    /\ rpc = "idle"
    /\ data = <<>>

TNext ==
    \/ Connect
    \/ Disconnect
    \/ Enter
    \/ Exit
    \/ Write
    \/ Read
    \/ Query
    \/ Recv

SpecTransport == TInit /\ [][TNext]_vars

TTypeOK ==
    /\ handle \in {"None", "obj"}
    /\ Len(data) <= MaxRead + 2
    /\ last.dIO <= MaxRead + 2
    /\ rpc = "reading" => last.result = "pending"

\* ------------------------------------------------- claims on the Transport
IOCalls == {"write", "read", "query"}

\* C11: connect() on a connected handle opens nothing, succeeds and leaves
\* the handle connected, in every variant; two connect() calls in a row on
\* a fresh handle perform one backend open between them.
C11_ConnectIdempotent ==
    /\ (last.call = "connect" /\ last.connBefore)
       => /\ last.dOpen = 0
          /\ last.result = "ok"
          /\ IsConnected
    /\ (last.call = "connect" /\ prev.call = "connect" /\ prev.result = "ok")
       => /\ last.dOpen = 0
          /\ last.result = "ok"
          /\ IsConnected
          /\ ~prev.connBefore => prev.dOpen + last.dOpen = 1

C11_Witness ==
    /\ kind = "serial"
    /\ last.call = "connect"
    /\ prev.call = "connect"
    /\ ~prev.connBefore
    /\ prev.dOpen = 1
    /\ last.dOpen = 0
    /\ IsConnected

\* C12: after a connect() that failed, at whatever step, the handle is
\* closed (is_connected() is false) and the next connect()
\* attempts a backend open again.
C12_FailedConnectClosed ==
    /\ (last.call = "connect" /\ last.result # "ok") => ~IsConnected
    /\ (last.call = "connect" /\ prev.call = "connect" /\ prev.result # "ok")
       => last.dOpen = 1

\* C13: after disconnect(), whether it returned or raised, is_connected()
\* is false.
C13_DisconnectClears ==
    last.call = "disconnect" => ~IsConnected

\* C14: disconnect() on a handle that is not connected (never connected, or
\* disconnected before) raises nothing, calls no backend close and leaves
\* the handle disconnected.
C14_DisconnectWhenClosed ==
    (last.call = "disconnect" /\ ~last.connBefore)
    => /\ last.result = "ok"
       /\ last.dClose = 0
       /\ ~IsConnected
       /\ handle = "None"

C14_Witness ==
    /\ kind = "visa"
    /\ last.call = "disconnect"
    /\ prev.call = "none"
    /\ last.result = "ok"
    /\ last.dClose = 0

\* C15: write, read and query on a disconnected handle raise the Closed
\* error, make no backend call and leave the handle disconnected; a call
\* that did backend I/O started on a connected handle.
C15_ClosedWhenDisconnected ==
    /\ (last.call \in IOCalls /\ ~last.connBefore)
       => /\ last.result = "Closed"
          /\ last.dIO = 0
          /\ rpc = "idle"
          /\ ~IsConnected
    /\ (last.call \in IOCalls /\ last.dIO > 0) => last.connBefore
    /\ rpc = "reading" => last.connBefore

C15_Witness ==
    /\ kind = "visa"
    /\ last.call = "query"
    /\ last.result = "Closed"
    /\ prev.call = "disconnect"
    /\ last.dIO = 0

\* C16: in every variant and for every terminator, a read is still waiting
\* for bytes only while the bytes so far do not end with the configured
\* terminator, and it returns only when they do or at end-of-stream.
C16_ReadEndsAtTerminator ==
    /\ rpc = "reading" => ~EndsWith(data, terminator)
    /\ (last.call \in {"read", "query"} /\ last.result = "ok")
       => (EndsWith(data, terminator) \/ last.fault = "eos")

\* C17: __enter__ connects; after __exit__, on a normal end of the body or
\* on an error of the body, the transport is disconnected, and an error of
\* the body is the error the caller receives.
C17_ScopedAcquisition ==
    /\ (last.call = "enter" /\ last.result = "ok") => (scope /\ IsConnected)
    /\ (last.call = "enter" /\ last.result # "ok") => ~scope
    /\ last.call = "exit"
       => /\ ~scope
          /\ ~IsConnected
          /\ last.body # "none" => last.result = last.body
          /\ last.body = "none" => last.result = "ok"

\* C18: in every variant, a deadline the backend reports during write or
\* read is raised as the Timeout error and any other backend failure as
\* the IOError error.
C18_ErrorKinds ==
    (last.call \in IOCalls /\ rpc = "idle")
    => /\ last.fault = "timeout" => last.result = "Timeout"
       /\ last.fault = "other" => last.result = "IOError"
       /\ last.result = "Timeout" => last.fault = "timeout"

\* ------------------------------------------------------------------
\* The connection factory (connection_factory.py, factory.py)
\* ------------------------------------------------------------------

\* a parameter value: its Python type and its text
StrVal(s) == [type |-> "str", val |-> s]

IntVal(s) == [type |-> "int", val |-> s]

BytesVal(s) == [type |-> "bytes", val |-> s]

\* dict.get(key, default)
Get(d, k, default) == IF k \in DOMAIN d THEN d[k] ELSE default

\* truth value of a dict: None and {} are both false
Truthy(d) == DOMAIN d # {}

\* truth value of a method argument: None and '' are both false
Falsy(m) == m \in {"None", ""}

\* variant: the second operand wins when it is set
Or_configFirst(a, b) == IF b \in {"None", ""} THEN a ELSE b

\* a or b
Or(a, b) == IF Falsy(a) THEN b ELSE a

\* str.lower() on the method and device names used here
Lower(m) ==
    CASE m = "SERIAL" -> "serial"
      [] m = "SOCKET" -> "socket"
      [] m = "Visa" -> "visa"
      [] m = "DMM" -> "dmm"
      [] m = "Dmm" -> "dmm"
      [] m = "PSU" -> "psu"
      [] OTHER -> m

\* str.upper(), character by character
UpperChar(c) ==
    CASE c = "c" -> "C"
      [] c = "r" -> "R"
      [] c = "l" -> "L"
      [] c = "f" -> "F"
      [] OTHER -> c

Upper(s) == [i \in 1..Len(s) |-> UpperChar(s[i])]

\* variant: the table entries of CRLF and LFCR exchanged
parse_terminator_swapped(v) ==
    IF v.type = "str"
    THEN LET upper == [i \in 1..Len(v.val) |-> UpperChar(v.val[i])]
         IN  CASE upper = <<"C", "R">> -> StrVal(CR)
               [] upper = <<"L", "F">> -> StrVal(LF)
               [] upper = <<"C", "R", "L", "F">> -> StrVal(LFCR)
               [] upper = <<"L", "F", "C", "R">> -> StrVal(CRLF)
               [] OTHER -> v
    ELSE v

\* parse_terminator (connection_factory.py lines 2-12)
parse_terminator(v) ==
    IF v.type = "str"
    THEN LET upper == Upper(v.val)
         IN  CASE upper = <<"C", "R">> -> StrVal(CR)
               [] upper = <<"L", "F">> -> StrVal(LF)
               [] upper = <<"C", "R", "L", "F">> -> StrVal(CRLF)
               [] upper = <<"L", "F", "C", "R">> -> StrVal(LFCR)
               [] OTHER -> v
    ELSE v

\* {**a, **b} with a winning on a collision
Merge_configWins(a, b) ==
    [k \in DOMAIN a \cup DOMAIN b |-> IF k \in DOMAIN a THEN a[k] ELSE b[k]]

\* {**a, **b}: b wins on a collision
Merge(a, b) ==
    [k \in DOMAIN a \cup DOMAIN b |-> IF k \in DOMAIN b THEN b[k] ELSE a[k]]

\* params['terminator'] = parse_terminator(params['terminator']) when the
\* key is there
Normalized(params) ==
    [k \in DOMAIN params |->
        IF k = "terminator" THEN parse_terminator(params[k]) ELSE params[k]]

\* the constructor signatures of the three variants
CtorKeys(v) ==
    CASE v = "serial" -> {"port", "baudrate", "timeout", "terminator"}
      [] v = "socket" -> {"host", "port", "timeout", "terminator"}
      [] v = "visa" -> {"address", "timeout", "terminator"}

CtorRequired(v) ==
    CASE v = "serial" -> {}
      [] v = "socket" -> {"host", "port"}
      [] v = "visa" -> {"address"}

\* XConnection(**params): a TypeError for an unexpected or a missing
\* keyword, the transport otherwise
Construct(call, v, params) ==
    IF DOMAIN params \subseteq CtorKeys(v) /\ CtorRequired(v) \subseteq DOMAIN params
    THEN [state |-> "made", call |-> call, variant |-> v, params |-> params,
          error |-> "none", form |-> "none", listed |-> {}, wrapper |-> "none"]
    ELSE [state |-> "error", call |-> call, variant |-> v, params |-> params,
          error |-> "TypeError", form |-> "constructor arguments",
          listed |-> {}, wrapper |-> "none"]

\* variant: an unknown method falls back to the serial transport
Unknown_serial(call) == Construct(call, "serial", Empty)

\* raise ValueError('Unknown method: ...')
Unknown(call) ==
    [state |-> "error", call |-> call, variant |-> "none", params |-> Empty,
     error |-> "ValueError", form |-> "Unknown method", listed |-> {},
     wrapper |-> "none"]

\* the configuration key of a method's parameter block
ParamsKey(v) ==
    CASE v = "serial" -> "serial_params"
      [] v = "socket" -> "socket_params"
      [] v = "visa" -> "visa_params"

\* create_connection(method, config, kwargs)
\* (connection_factory.py lines 14-36)
create_connection(call, m, cfg, kw) ==
    LET comm_method == Lower(Or(m, IF Truthy(cfg) THEN Get(cfg, "method", "") ELSE ""))
    IN  IF comm_method \in Variants
        THEN LET block == IF Truthy(cfg) THEN Get(cfg, ParamsKey(comm_method), Empty)
                          ELSE Empty
             IN  Construct(call, comm_method, Normalized(Merge(block, kw)))
        ELSE Unknown(call)

\* create_raw_connection(method, **kwargs)
\* (connection_factory.py lines 38-43)
create_raw_connection(call, m, kw) ==
    LET comm_method == Lower(Or(m, ""))
    IN  IF comm_method \notin Variants
        THEN Unknown(call)
        ELSE create_connection(call, m, Empty, kw)

\* DeviceInfo(name, device_class, config_path, plugin_path); config is
\* what the lazy load of config_path yields (registry.py lines 17-36)
DeviceInfo(name, device_class, config_path, plugin_path, content) ==
    [name |-> name, device_class |-> device_class, config_path |-> config_path,
     plugin_path |-> plugin_path, config |-> content]

\* registry.list_devices(): the keys of _devices
list_devices(devs) == DOMAIN devs

\* variant: the message names no device
NotFound_noList(call, devs) ==
    [state |-> "error", call |-> call, variant |-> "none", params |-> Empty,
     error |-> "ValueError", form |-> "not found in registry",
     listed |-> {}, wrapper |-> "none"]

\* raise ValueError('Device ... not found in registry. Available devices: ...')
NotFound(call, devs) ==
    [state |-> "error", call |-> call, variant |-> "none", params |-> Empty,
     error |-> "ValueError", form |-> "not found in registry",
     listed |-> list_devices(devs), wrapper |-> "none"]

\* device_class(conn): reached only when the transport was constructed
Wrap(conn, device_class) ==
    IF conn.state = "made" THEN [conn EXCEPT !.wrapper = device_class] ELSE conn

\* _connect_device_via_registry(dev, method, **kwargs)
\* (factory.py lines 14-29)
connect_device_via_registry(call, dv, m, kw, devs) ==
    LET name == Lower(dv)
    IN  IF name \notin DOMAIN devs
        THEN NotFound(call, devs)
        ELSE LET cfg == devs[name].config
                 effective_method == Or(m, Get(cfg, "method", ""))
             IN  Wrap(create_connection(call, effective_method, cfg, kw),
                      devs[name].device_class)

\* connect(dev, method, **kwargs) (factory.py lines 31-45)
connect(call, dv, m, kw, devs) ==
    IF ~Falsy(dv)
    THEN connect_device_via_registry(call, dv, m, kw, devs)
    ELSE create_raw_connection(call, m, kw)

\* the function made by _create_typed_connect(name, device_class)
\* (registry.py lines 176-187)
TypedConnectFn(name, device_class) == [name |-> name, device_class |-> device_class]

Failure(call, error, form) ==
    [state |-> "error", call |-> call, variant |-> "none", params |-> Empty,
     error |-> error, form |-> form, listed |-> {}, wrapper |-> "none"]

\* typed_connect(method, **kwargs): "from lab_instruments.factory import
\* connect_device" goes through the module's __getattr__ (factory.py
\* lines 52-59), which looks up the typed connect function of a device
\* named "device"; there is none unless such a device is registered, and
\* that function takes two positional arguments, not the three it is
\* called with (registry.py lines 179-181)
typed_connect(call, fn, m, kw, tcs) ==
    IF "device" \notin DOMAIN tcs
    THEN Failure(call, "ImportError", "cannot import name connect_device")
    ELSE Failure(call, "TypeError", "positional arguments")

\* getattr(lab_instruments, "connect_" + n)(method, **kwargs)
\* (__init__.py lines 18-25)
connect_n(call, n, m, kw, tcs) ==
    IF n \notin DOMAIN tcs
    THEN Failure(call, "AttributeError", "no attribute")
    ELSE typed_connect(call, tcs[n], m, kw, tcs)

\* -- the inputs of a factory call

Baud9600 == IntVal(<<"9600">>)

Baud115200 == IntVal(<<"115200">>)

\* values a device configuration gives to a parameter
ConfigValues ==
    [k \in {"baudrate", "terminator", "port"} |->
        CASE k = "baudrate" -> {Baud9600}
          [] k = "terminator" -> {StrVal(<<"C", "R">>), StrVal(<<";">>)}
          [] k = "port" -> {StrVal(<<"COM1">>)}]

\* values a caller gives to a keyword argument
CallerValues ==
    [k \in {"baudrate", "terminator", "host"} |->
        CASE k = "baudrate" -> {Baud9600, Baud115200}
          [] k = "terminator" -> {StrVal(<<"C", "R">>), StrVal(<<"l", "f">>),
                                  StrVal(<<"L", "F", "C", "R">>), StrVal(CRLF),
                                  StrVal(<<"C", "r", "L", "f">>),
                                  StrVal(<<"C", "R", " ">>),
                                  StrVal(<<";">>), BytesVal(<<"C", "R">>)}
          [] k = "host" -> {StrVal(<<"h">>)}]

\* the dicts over keys K whose values come from V
Dicts(K, V) ==
    UNION { { f \in [D -> UNION { V[k] : k \in D }] : \A k \in D : f[k] \in V[k] }
            : D \in SUBSET K }

SerialBlocks == Dicts({"port", "baudrate", "terminator"}, ConfigValues)

SocketBlocks ==
    { Empty,
      ("host" :> StrVal(<<"h0">>)) @@ ("port" :> IntVal(<<"5025">>)),
      ("host" :> StrVal(<<"h0">>)) @@ ("port" :> IntVal(<<"5025">>))
          @@ ("terminator" :> StrVal(<<"L", "F">>)) }

VisaBlocks ==
    { Empty,
      ("address" :> StrVal(<<"GPIB0::1">>)) @@ ("terminator" :> StrVal(<<"\n">>)) }

\* a key of the configuration; a key with nothing under it is left out
Section(k, b) == IF b = Empty THEN Empty ELSE (k :> b)

MethodKey(m) == IF m = "" THEN Empty ELSE ("method" :> m)

Configs ==
    { MethodKey(m) @@ Section("serial_params", sb) @@ Section("socket_params", kb)
          @@ Section("visa_params", vb)
      : m \in {""} \cup Variants, sb \in SerialBlocks, kb \in SocketBlocks,
        vb \in VisaBlocks }

Methods == {"None", "serial", "SOCKET", "visa", "bogus"}

Kwargs == Dicts({"baudrate", "terminator", "host"}, CallerValues)

\* the terminator a constructor takes when none is passed (socket line 11,
\* serial line 11, visa line 9)
DefaultTerminator(v) == IF v = "visa" THEN LF ELSE CRLF

\* variant: the constructor opens the channel
Constructed_opened(v, params) ==
    [kind |-> v,
     terminator |-> IF "terminator" \in DOMAIN params
                    THEN params["terminator"].val
                    ELSE DefaultTerminator(v),
     handle |-> "obj", is_open |-> TRUE, rm |-> (v = "visa")]

\* XConnection.__init__ (socket lines 11-16, serial 11-16, visa 9-14): the
\* fields of the new transport; the handle is None
Constructed(v, params) ==
    [kind |-> v,
     terminator |-> IF "terminator" \in DOMAIN params
                    THEN params["terminator"].val
                    ELSE DefaultTerminator(v),
     handle |-> "None", is_open |-> FALSE, rm |-> FALSE]

\* the transport a factory call returned, bare or inside its wrapper
\* (CommonSCPI.__init__, common_scpi.py lines 5-6, stores it), becomes the
\* transport of the model; a call that raised returned none
Build(m) ==
    IF m.state = "made"
    THEN LET c == Constructed(m.variant, m.params)
         IN  /\ kind' = c.kind
             /\ terminator' = c.terminator
             /\ handle' = c.handle
             /\ is_open' = c.is_open
             /\ rm' = c.rm
             /\ scope' = FALSE
             /\ last' = NoCall
             /\ prev' = NoPrev
             /\ rpc' = "idle"
             /\ data' = <<>>
    ELSE UNCHANGED tvars

\* -- the factory calls

\* create_connection(method, config, kwargs)
CreateConnection ==
    /\ made.state = "none"
    /\ made' = create_connection("create_connection", method, config, kwargs)
    /\ Build(made')
    /\ UNCHANGED << config, method, kwargs, dev, rvars, evars >>

\* connect(method=..., **kwargs) without a device name: no configuration
\* (factory.py lines 44-45)
CreateRawConnection ==
    /\ made.state = "none"
    /\ config = Empty
    /\ made' = create_raw_connection("create_raw_connection", method, kwargs)
    /\ Build(made')
    /\ UNCHANGED << config, method, kwargs, dev, rvars, evars >>

\* connect(dev=..., method=..., **kwargs); config is the local variable
\* of factory.py line 21
ConnectDevice ==
    /\ made.state = "none"
    /\ made' = connect("connect", dev, method, kwargs, devices)
    /\ config' = IF ~Falsy(dev) /\ Lower(dev) \in DOMAIN devices
                 THEN devices[Lower(dev)].config
                 ELSE config
    /\ Build(made')
    /\ UNCHANGED << method, kwargs, dev, rvars, evars >>

\* one device, dmm, registered with the configuration config
FInit ==
    /\ EngineInit
    /\ TransportParked
    /\ config \in Configs
    /\ method \in Methods
    /\ kwargs \in Kwargs
    /\ made = NotMade
    /\ dev = "dmm"
    /\ devices = ("dmm" :> DeviceInfo("dmm", "DMMSCPI", <<"dmm", "config.json">>,
                                      <<"dmm">>, config))
    /\ typed_connects = ("dmm" :> TypedConnectFn("dmm", "DMMSCPI"))
    /\ stats = NoStats
    /\ rlast = NoRCall

FNext == CreateConnection \/ CreateRawConnection \/ ConnectDevice

SpecFactory == FInit /\ [][FNext]_vars

\* -- claims about the factory

\* the configuration's parameter block for the method of the variant that
\* was constructed
ConfiguredBlock ==
    IF made.variant \in Variants
    THEN Get(config, ParamsKey(made.variant), Empty)
    ELSE Empty

\* C20 (as stated): the parameters handed to the constructor are the
\* configured block of the effective method overlaid with the caller's
\* keyword arguments: every overridden key carries the caller's value,
\* every other key of the block its configured value, and there is no
\* other key.
C20_MergedParams ==
    made.variant \in Variants
    => /\ DOMAIN made.params = DOMAIN ConfiguredBlock \cup DOMAIN kwargs
       /\ \A k \in DOMAIN kwargs : made.params[k] = kwargs[k]
       /\ \A k \in DOMAIN ConfiguredBlock \ DOMAIN kwargs :
             made.params[k] = ConfiguredBlock[k]

\* a value as the constructor receives it: the terminator goes through
\* the logical-name table
AsHanded(k, v) == IF k = "terminator" THEN parse_terminator(v) ELSE v

\* C20 (amended): the same, except that the value under the key
\* terminator, the caller's when overridden and the configured one
\* otherwise, is handed over after normalization through the logical-name
\* table.
C20_MergedParamsNormalized ==
    made.variant \in Variants
    => /\ DOMAIN made.params = DOMAIN ConfiguredBlock \cup DOMAIN kwargs
       /\ \A k \in DOMAIN kwargs : made.params[k] = AsHanded(k, kwargs[k])
       /\ \A k \in DOMAIN ConfiguredBlock \ DOMAIN kwargs :
             made.params[k] = AsHanded(k, ConfiguredBlock[k])

\* a serial device configured with baudrate 9600, a port and terminator CR,
\* connected with the override baudrate=115200
C20_Witness ==
    /\ made.state = "made"
    /\ made.call = "connect"
    /\ made.variant = "serial"
    /\ DOMAIN ConfiguredBlock = {"port", "baudrate", "terminator"}
    /\ ConfiguredBlock["baudrate"] = Baud9600
    /\ ConfiguredBlock["terminator"] = StrVal(<<"C", "R">>)
    /\ DOMAIN kwargs = {"baudrate"}
    /\ kwargs["baudrate"] = Baud115200
    /\ made.params["baudrate"] = Baud115200
    /\ made.params["port"] = StrVal(<<"COM1">>)
    /\ made.params["terminator"] = StrVal(<<"\r">>)
    /\ "socket_params" \in DOMAIN config
    /\ "host" \notin DOMAIN made.params

\* the caller gave a method
MethodGiven == method \notin {"None", ""}

\* the effective method: the caller's when given, else the configuration's
EffectiveMethod ==
    IF MethodGiven THEN method
    ELSE IF "method" \in DOMAIN config THEN config["method"] ELSE ""

\* the transport variant a method name stands for, letter case aside
VariantNamed(m) ==
    CASE m \in {"serial", "SERIAL", "Serial"} -> "serial"
      [] m \in {"socket", "SOCKET", "Socket"} -> "socket"
      [] m \in {"visa", "VISA", "Visa"} -> "visa"
      [] OTHER -> "none"

\* C21: the effective method is the caller's method whenever one is given
\* and the configuration's method otherwise, and a transport that was
\* constructed is of the variant that the effective method names.
C21_EffectiveMethod ==
    made.state # "none"
    => /\ made.variant \in Variants => made.variant = VariantNamed(EffectiveMethod)
       /\ VariantNamed(EffectiveMethod) \in Variants
          => made.variant = VariantNamed(EffectiveMethod)

\* a device configured for socket, connected with method serial
C21_Witness ==
    /\ made.state = "made"
    /\ made.call = "connect"
    /\ method = "serial"
    /\ "method" \in DOMAIN config
    /\ config["method"] = "socket"
    /\ made.variant = "serial"

\* the terminator value before normalization: the caller's when
\* overridden, the configured one otherwise
TermGiven ==
    IF "terminator" \in DOMAIN kwargs THEN kwargs["terminator"]
    ELSE ConfiguredBlock["terminator"]

HasStrTerminator ==
    /\ made.variant \in Variants
    /\ "terminator" \in DOMAIN made.params
    /\ TermGiven.type = "str"

\* the four logical names and their byte sequences
TermTable(name) ==
    CASE name = <<"C", "R">> -> <<"\r">>
      [] name = <<"L", "F">> -> <<"\n">>
      [] name = <<"C", "R", "L", "F">> -> <<"\r", "\n">>
      [] name = <<"L", "F", "C", "R">> -> <<"\n", "\r">>
      [] OTHER -> name

LogicalNames ==
    { <<"C", "R">>, <<"L", "F">>, <<"C", "R", "L", "F">>, <<"L", "F", "C", "R">> }

\* C22 (as stated): normalization maps exactly the four names CR, LF, CRLF,
\* LFCR to "\r", "\n", "\r\n", "\n\r" and returns every other string
\* unchanged.
C22_ExactNames ==
    HasStrTerminator
    => made.params["terminator"] = StrVal(TermTable(TermGiven.val))

SmallLetter(c) ==
    CASE c = "C" -> "c" [] c = "R" -> "r" [] c = "L" -> "l" [] c = "F" -> "f"
      [] OTHER -> c

\* s spells the logical name n in some letter case
Spells(s, n) ==
    /\ Len(s) = Len(n)
    /\ \A i \in 1..Len(n) : s[i] \in {n[i], SmallLetter(n[i])}

\* C22 (amended): normalization maps the four names CR, LF, CRLF, LFCR,
\* written in any letter case, to "\r", "\n", "\r\n", "\n\r" and returns
\* every other string unchanged.
C22_NamesAnyCase ==
    HasStrTerminator
    => /\ \A n \in LogicalNames :
             Spells(TermGiven.val, n)
             => made.params["terminator"] = StrVal(TermTable(n))
       /\ (\A n \in LogicalNames : ~Spells(TermGiven.val, n))
          => made.params["terminator"] = TermGiven

\* terminator "CrLf" handed over as "\r\n"
C22_Witness ==
    /\ HasStrTerminator
    /\ made.state = "made"
    /\ TermGiven.val = <<"C", "r", "L", "f">>
    /\ made.params["terminator"] = StrVal(<<"\r", "\n">>)

\* C23 (as stated): for every effective method other than serial, socket
\* and visa the factory raises the configuration error and constructs no
\* transport.
C23_UnknownMethod ==
    (made.state # "none" /\ EffectiveMethod \notin Variants)
    => /\ made.state = "error"
       /\ made.error = "ValueError"
       /\ made.variant = "none"

\* C23 (amended): the same for every effective method that, letter case
\* aside, is none of serial, socket and visa.
C23_UnknownMethodAnyCase ==
    (made.state # "none" /\ VariantNamed(EffectiveMethod) \notin Variants)
    => /\ made.state = "error"
       /\ made.error = "ValueError"
       /\ made.variant = "none"

\* a registered device whose configuration has no method, connected
\* without a method
C23_Witness ==
    /\ made.call = "connect"
    /\ ~MethodGiven
    /\ "method" \notin DOMAIN config
    /\ "serial_params" \in DOMAIN config
    /\ made.state = "error"
    /\ made.error = "ValueError"

\* ------------------------------------------------------------------
\* SCPIError on its own: the status decoding of every register value
\* ------------------------------------------------------------------

\* the values of an 8-bit status register
EsrValues == 0..(2 ^ Len(ESR_MEANINGS) - 1)

\* SCPIError(esr_value) constructed by a caller
\* (common_scpi.py lines 155-159)
NewSCPIError ==
    /\ pc = "idle"
    /\ exc = NoExc
    /\ \E v \in EsrValues : exc' = SCPIError(v, None)
    /\ UNCHANGED << pc, op, command, safe, timeout, interval, minDelay, now,
                    start, ioTime, polls, sleeps, log, esr_str, response,
                    outcomes, retval, faults, tvars, fvars >>

DNext == NewSCPIError

SpecDecode == Init /\ [][DNext]_vars

\* the bit positions set in v
SetBits(v) == { i \in 0..7 : HasBit(v, i) }

\* position of bit i among the set bits of v, counted from the lowest
RankIn(v, i) == Cardinality({ k \in SetBits(v) : k < i }) + 1

\* C28: for every register value 0..255 the decoded flags are exactly the
\* names of the set bits, in ascending bit order with bit 0 the lowest,
\* and the message lists them, or says that no error flags are set when
\* the value is zero.
C28_DecodeAll ==
    (exc.type = "SCPIError" /\ exc.message.form # "Failed to parse ESR value"
        /\ exc.esr_value \in 0..255)
    => /\ Len(exc.flags) = Cardinality(SetBits(exc.esr_value))
       /\ \A i \in SetBits(exc.esr_value) :
             exc.flags[RankIn(exc.esr_value, i)] = ESR_MEANINGS[i + 1]
       /\ exc.message.esr = exc.esr_value
       /\ exc.message.listed = exc.flags
       /\ exc.esr_value = 0 => exc.message.form = "No error flags set"
       /\ exc.esr_value # 0 => exc.message.form = "Flags"

\* the value 129: bits 0 and 7
C28_Witness ==
    /\ pc = "idle"
    /\ exc.type = "SCPIError"
    /\ exc.esr_value = 129
    /\ exc.flags = <<"Operation Complete", "Power On">>
    /\ exc.message.form = "Flags"

\* C29: the failures of the handshake are of distinct kinds: an
\* unparsable status reply gives an error that is not the status error
\* and carries no decoded flags, a completion reply with error bits gives
\* the status error, a timeout gives the timeout error.
C29_DistinctKinds ==
    pc = "done"
    => /\ outcomes = <<"parse_error">>
          => (exc.type # "SCPIError" /\ exc.flags = <<>>)
       /\ outcomes = <<"status_error">> => exc.type = "SCPIError"
       /\ outcomes = <<"timeout">> => exc.type = "TimeoutError"

\* ------------------------------------------------------------------
\* The device registry (registry.py) and the calls through it
\* ------------------------------------------------------------------

\* -- what is on disk

\* the plugins directory that exists
PluginsDir == "lab_instruments/plugins"

\* an entry of a plugins directory
Entry(name, is_dir, scpi_file, load, has_class, config_file) ==
    [name |-> name, is_dir |-> is_dir, scpi_file |-> scpi_file, load |-> load,
     has_class |-> has_class, config_file |-> config_file]

\* the entries of PluginsDir: two loadable devices (one in a directory
\* named in capitals), one without its wrapper file, one whose module
\* fails to load, one whose module lacks the class
PluginEntries ==
    { Entry("dmm", TRUE, TRUE, "ok", TRUE, TRUE),
      Entry("PSU", TRUE, TRUE, "ok", TRUE, FALSE),
      Entry("nofile", TRUE, FALSE, "ok", FALSE, FALSE),
      Entry("broken", TRUE, TRUE, "ImportError", FALSE, TRUE),
      Entry("nocls", TRUE, TRUE, "ok", FALSE, FALSE) }

\* the orders in which iterdir() can yield the entries
PluginOrders ==
    { o \in [1..Cardinality(PluginEntries) -> PluginEntries] :
        \A i, j \in 1..Cardinality(PluginEntries) : o[i] = o[j] => i = j }

\* device_dir.name.startswith('.')
StartsWithDot(name) == name = ".git"

\* f"{device_name.upper()}SCPI"
ClassName(name) ==
    CASE name = "dmm" -> "DMMSCPI"
      [] name = "PSU" -> "PSUSCPI"
      [] name = "broken" -> "BROKENSCPI"
      [] name = "nocls" -> "NOCLSSCPI"
      [] OTHER -> "SCPI"

\* a device configuration as create_plugin.py writes it, with the blocks
\* of two methods
DmmConfig ==
    ("method" :> "serial")
    @@ ("serial_params" :> (("port" :> StrVal(<<"COM1">>)) @@ ("baudrate" :> Baud9600)
                            @@ ("terminator" :> StrVal(<<"C", "R">>))))
    @@ ("socket_params" :> (("host" :> StrVal(<<"h0">>)) @@ ("port" :> IntVal(<<"5025">>))))

\* a configuration without the method key
AltConfig ==
    ("socket_params" :> (("host" :> StrVal(<<"h0">>)) @@ ("port" :> IntVal(<<"5025">>))))

\* json.load of the file at config_path; {} when there is no such file
\* (registry.py lines 30-36)
FileContent(config_path) ==
    CASE config_path = <<"dmm", "config.json">> -> DmmConfig
      [] config_path = <<"alt.json">> -> AltConfig
      [] OTHER -> Empty

\* -- the registry operations as functions of the registry

\* variant: the typed connect function is not stored
register_noTyped(name, device_class, config_path, plugin_path, devs, tcs) ==
    [devices |-> (name :> DeviceInfo(name, device_class, config_path, plugin_path,
                                     FileContent(config_path))) @@ devs,
     typed_connects |-> tcs]

\* register(name, device_class, config_path, plugin_path)
\* (registry.py lines 104-113)
register(name, device_class, config_path, plugin_path, devs, tcs) ==
    [devices |-> (name :> DeviceInfo(name, device_class, config_path, plugin_path,
                                     FileContent(config_path))) @@ devs,
     typed_connects |-> (name :> TypedConnectFn(name, device_class)) @@ tcs]

Tried(success, error, devs, tcs, raised) ==
    [success |-> success, error |-> error, devices |-> devs,
     typed_connects |-> tcs, raised |-> raised]

\* variant: a load failure is not caught
try_register_plugin_uncaught(c, devs, tcs) ==
    IF c.name \in DOMAIN devs THEN Tried(TRUE, "none", devs, tcs, "none")
    ELSE IF ~c.scpi_file THEN Tried(FALSE, "SCPI file not found", devs, tcs, "none")
    ELSE IF c.load # "ok" THEN Tried(FALSE, "none", devs, tcs, c.load)
    ELSE IF ~c.has_class THEN Tried(FALSE, "Registration failed", devs, tcs, "none")
    ELSE LET r == register(c.name, ClassName(c.name),
                           IF c.config_file THEN <<c.name, "config.json">> ELSE None,
                           <<c.name>>, devs, tcs)
         IN  Tried(TRUE, "none", r.devices, r.typed_connects, "none")

\* _try_register_plugin(device_dir) (registry.py lines 232-272)
try_register_plugin(c, devs, tcs) ==
    IF c.name \in DOMAIN devs THEN Tried(TRUE, "none", devs, tcs, "none")
    ELSE IF ~c.scpi_file THEN Tried(FALSE, "SCPI file not found", devs, tcs, "none")
    ELSE IF c.load # "ok" THEN Tried(FALSE, "Registration failed", devs, tcs, "none")
    ELSE IF ~c.has_class THEN Tried(FALSE, "Registration failed", devs, tcs, "none")
    ELSE LET r == register(c.name, ClassName(c.name),
                           IF c.config_file THEN <<c.name, "config.json">> ELSE None,
                           <<c.name>>, devs, tcs)
         IN  Tried(TRUE, "none", r.devices, r.typed_connects, "none")

\* the loop of auto_discover over the entries in the order given, from
\* entry i on (registry.py lines 211-222); an exception of
\* _try_register_plugin would leave the loop and the function
RECURSIVE ScanFrom(_, _, _)
ScanFrom(order, i, acc) ==
    IF i > Len(order) \/ acc.raised # "none" THEN acc
    ELSE LET c == order[i]
         IN  IF ~c.is_dir \/ StartsWithDot(c.name)
             THEN ScanFrom(order, i + 1, acc)
             ELSE LET r == try_register_plugin(c, acc.devices, acc.typed_connects)
                  IN  ScanFrom(order, i + 1,
                        [devices |-> r.devices,
                         typed_connects |-> r.typed_connects,
                         attempted |-> acc.attempted + 1,
                         successful |-> acc.successful + (IF r.success THEN 1 ELSE 0),
                         failed |-> acc.failed
                                    + (IF r.success \/ r.raised # "none" THEN 0 ELSE 1),
                         errors |-> IF ~r.success /\ r.raised = "none" /\ r.error # "none"
                                    THEN Append(acc.errors, <<c.name, r.error>>)
                                    ELSE acc.errors,
                         raised |-> r.raised])

\* variant: no test that the plugins directory exists; a missing one is
\* scanned as if it were empty
auto_discover_noExistsTest(plugins_dir, order, devs, tcs, st) ==
    LET r == ScanFrom(order, 1,
                 [devices |-> devs, typed_connects |-> tcs, attempted |-> 0,
                  successful |-> 0, failed |-> 0, errors |-> <<>>,
                  raised |-> "none"])
    IN  [devices |-> r.devices, typed_connects |-> r.typed_connects,
         raised |-> r.raised,
         stats |-> IF r.raised # "none" THEN st
                   ELSE [set |-> TRUE, found |-> TRUE, attempted |-> r.attempted,
                         successful |-> r.successful, failed |-> r.failed,
                         errors |-> r.errors]]

\* auto_discover(plugins_dir) with the entries visited in the order given
\* (registry.py lines 189-230)
auto_discover(plugins_dir, order, devs, tcs, st) ==
    IF plugins_dir # PluginsDir
    THEN [devices |-> devs, typed_connects |-> tcs, raised |-> "none",
          stats |-> [set |-> TRUE, found |-> FALSE, attempted |-> 0,
                     successful |-> 0, failed |-> 0,
                     errors |-> << <<plugins_dir, "Plugins directory not found">> >>]]
    ELSE LET r == ScanFrom(order, 1,
                     [devices |-> devs, typed_connects |-> tcs, attempted |-> 0,
                      successful |-> 0, failed |-> 0, errors |-> <<>>,
                      raised |-> "none"])
         IN  [devices |-> r.devices, typed_connects |-> r.typed_connects,
              raised |-> r.raised,
              stats |-> IF r.raised # "none" THEN st
                        ELSE [set |-> TRUE, found |-> TRUE, attempted |-> r.attempted,
                              successful |-> r.successful, failed |-> r.failed,
                              errors |-> r.errors]]

\* -- the calls

\* what a caller registers by hand
RegisterNames == {"dmm", "DMM", "device"}

RegisterInfos == { <<"DMMSCPI", None>>, <<"AltSCPI", <<"alt.json">> >> }

\* the arguments of the connect calls
Devs == {"dmm", "DMM", "PSU", "psu", "nodev"}

RMethods == {"None", "socket"}

RKwargs == { Empty, ("baudrate" :> Baud115200) }

\* no factory call under way: the caller is between calls
CallerIdle == made.state = "none" /\ dev = "None"

RCall(call, raised) == [call |-> call, raised |-> raised, name |-> "none"]

\* registry.register(name, device_class, config_path)
Register ==
    /\ CallerIdle
    /\ \E name \in RegisterNames, info \in RegisterInfos :
          LET r == register(name, info[1], info[2], None, devices, typed_connects)
          IN  /\ devices' = r.devices
              /\ typed_connects' = r.typed_connects
              /\ rlast' = [call |-> "register", raised |-> "none", name |-> name]
    /\ UNCHANGED << stats, config, method, kwargs, made, dev, evars, tvars >>

\* registry.auto_discover(plugins_dir)
AutoDiscover ==
    /\ CallerIdle
    /\ \E scan \in ({PluginsDir} \X PluginOrders) \cup {<<"nowhere", <<>> >>} :
          LET r == auto_discover(scan[1], scan[2], devices, typed_connects, stats)
          IN  /\ devices' = r.devices
              /\ typed_connects' = r.typed_connects
              /\ stats' = r.stats
              /\ rlast' = [call |-> "auto_discover", raised |-> r.raised,
                            name |-> scan[1]]
    /\ UNCHANGED << config, method, kwargs, made, dev, evars, tvars >>

\* registry.clear_registry() (registry.py lines 168-174)
ClearRegistry ==
    /\ CallerIdle
    /\ devices' = Empty
    /\ typed_connects' = Empty
    /\ stats' = NoStats
    /\ rlast' = RCall("clear_registry", "none")
    /\ UNCHANGED << config, method, kwargs, made, dev, evars, tvars >>

\* the caller decides on a connect call and its arguments
Ask ==
    /\ CallerIdle
    /\ dev' \in Devs
    /\ method' \in RMethods
    /\ kwargs' \in RKwargs
    /\ UNCHANGED << config, made, rvars, evars, tvars >>

\* lab_instruments.connect_<dev>(method, **kwargs)
TypedConnect ==
    /\ made.state = "none"
    /\ made' = connect_n("typed_connect", dev, method, kwargs, typed_connects)
    /\ Build(made')
    /\ UNCHANGED << config, method, kwargs, dev, rvars, evars >>

\* the caller drops what the factory call gave
Forget ==
    /\ made.state # "none"
    /\ made' = NotMade
    /\ config' = Empty
    /\ dev' = "None"
    /\ method' = "None"
    /\ kwargs' = Empty
    /\ UNCHANGED << rvars, evars, tvars >>

RInit ==
    /\ EngineInit
    /\ TransportParked
    /\ FactoryParked

RNext ==
    \/ Register
    \/ AutoDiscover
    \/ ClearRegistry
    \/ Ask
    \/ ConnectDevice
    \/ TypedConnect
    \/ Forget

SpecRegistry == RInit /\ [][RNext]_vars

\* -- claims about the registry

\* connect was called with a device name
ConnectByName == made.call = "connect" /\ dev \notin {"None", ""}

\* C24: connect(dev=name) for a name that, lowercased, is no key of the
\* registry fails with the not-found error whose message lists exactly
\* the registered names; no transport is constructed, and the call leaves
\* the registry as it was.
C24_NotFound ==
    /\ [](ConnectByName /\ Lower(dev) \notin DOMAIN devices
           => /\ made.state = "error"
              /\ made.error = "ValueError"
              /\ made.form = "not found in registry"
              /\ made.listed = DOMAIN devices
              /\ made.variant = "none"
              /\ made.wrapper = "none")
    /\ [][made.state = "none" /\ made'.state # "none"
           => UNCHANGED << devices, typed_connects, stats >>]_vars

\* dmm and PSU discovered, connect(dev="psu")
C24_Witness ==
    /\ ConnectByName
    /\ dev = "psu"
    /\ DOMAIN devices = {"dmm", "PSU"}
    /\ made.error = "ValueError"
    /\ made.listed = {"dmm", "PSU"}

\* C25: a name once registered keeps its descriptor (wrapper type and
\* configuration source): registering it again, by register() or by a
\* discovery scan, changes nothing and raises nothing.
C25_FirstWins ==
    [][/\ \A n \in DOMAIN devices \cap DOMAIN devices' :
             /\ devices'[n].device_class = devices[n].device_class
             /\ devices'[n].config_path = devices[n].config_path
       /\ rlast'.raised = "none"]_vars

\* C26: every name the registry holds is lowercase, and connect(dev=...)
\* finds a registered device whatever the letter case of the name given
\* or registered.
C26_NamesLowercased ==
    /\ \A n \in DOMAIN devices : n = Lower(n)
    /\ (ConnectByName /\ \E n \in DOMAIN devices : Lower(n) = Lower(dev))
       => made.form # "not found in registry"

\* a candidate that cannot be registered
Faulty(c) == ~c.scpi_file \/ c.load # "ok" \/ ~c.has_class

\* the names in the recorded discovery errors
ErrorNames == { stats.errors[i][1] : i \in 1..Len(stats.errors) }

\* C27: a scan of the plugins directory ends without raising, in whatever
\* order the candidates were visited: every candidate whose wrapper file
\* is missing, whose module fails to load or lacks the class (and whose
\* name is not registered) is in the recorded errors, and every valid
\* candidate is registered.
C27_DiscoveryIsolated ==
    (rlast.call = "auto_discover")
    => /\ rlast.raised = "none"
       /\ stats.set
       /\ stats.found
          => \A c \in PluginEntries :
                /\ (Faulty(c) /\ c.name \notin DOMAIN devices) => c.name \in ErrorNames
                /\ ~Faulty(c) => c.name \in DOMAIN devices

\* a scan that met the module that fails to load first and one valid
\* candidate last
C27_Witness ==
    /\ rlast.call = "auto_discover"
    /\ stats.found
    /\ Len(stats.errors) = 3
    /\ stats.errors[1][1] = "broken"
    /\ ErrorNames = {"nofile", "broken", "nocls"}
    /\ {"dmm", "PSU"} \subseteq DOMAIN devices
    /\ stats.successful = 2

\* C30: every registered name n has a typed connect function, and
\* connect_n(method, **kwargs) ends as connect(dev=n, method, **kwargs)
\* does: the same wrapper type around the same variant with the same
\* parameters, or the same error.
C30_TypedConnectSame ==
    /\ DOMAIN devices \subseteq DOMAIN typed_connects
    /\ (made.call = "typed_connect" /\ dev \in DOMAIN devices)
       => made = connect("typed_connect", dev, method, kwargs, devices)

\* ------------------------------------------------------------------
\* A second thread disconnects the Transport while send/query polls
\* (common_scpi.py lines 100-113, 124-137; socket_interface.py lines
\*  28-65; serial_interface.py lines 26-56)
\* ------------------------------------------------------------------

\* the variants whose disconnect/write/read are plain Python over a handle
AbortVariants == {"socket", "serial"}

\* ConnectionClosedError, ConnectionIOError (connection.py) and the error
\* of an attribute access on None, as the caller of send/query sees them
ClosedError ==
    [type |-> "ConnectionClosedError", esr_value |-> 0, flags |-> <<>>,
     message |-> [esr |-> 0, form |-> "is not connected", listed |-> <<>>]]

IOError ==
    [type |-> "ConnectionIOError", esr_value |-> 0, flags |-> <<>>,
     message |-> [esr |-> 0, form |-> "write/read error", listed |-> <<>>]]

AttributeError ==
    [type |-> "AttributeError", esr_value |-> 0, flags |-> <<>>,
     message |-> [esr |-> 0, form |-> "'NoneType' object has no attribute",
                  listed |-> <<>>]]

\* status replies of the instrument: not complete, complete, complete with
\* an error bit, no number, an empty line
AbortReplies == { <<"0">>, <<"2">>, <<"3","4">>, <<"-">>, <<>> }

\* positions of the caller inside conn.query("*ESR?"): at the guard of
\* write ("poll"), at the backend send, at the guard of read, at a backend
\* receive
PollPositions == {"poll", "poll_send", "poll_read", "poll_recv"}

\* a backend call made through the handle attribute (self.sock.sendall,
\* self.sock.recv, self.ser.write, self.ser.readline) after the guard was
\* passed: the attribute is None once the other thread cleared it; a
\* handle whose channel was closed raises OSError / SerialException, which
\* the except clause turns into ConnectionIOError
Backend(h, o) ==
    IF h = "None" THEN AttributeError
    ELSE IF ~o THEN IOError
    ELSE NoExc

\* the exception e of a transport call leaves send/query
Abort(e) ==
    /\ exc' = e
    /\ outcomes' = Append(outcomes, "transport_fault")
    /\ faults' = faults + 1
    /\ pc' = "done"

\* query("*ESR?") begins: the guard of write (socket line 37, serial 35)
PollGuardWrite ==
    /\ pc = "poll"
    /\ polls < MaxPolls
    /\ log' = log \o PollOps
    /\ polls' = polls + 1
    /\ IF not_connected(kind, handle, is_open)
       THEN Abort(ClosedError)
       ELSE /\ pc' = "poll_send"
            /\ UNCHANGED << exc, outcomes, faults >>
    /\ rpc' = "idle"
    /\ UNCHANGED << args, now, start, ioTime, sleeps, esr_str, response,
                    retval, kind, terminator, handle, is_open, rm, scope,
                    last, prev, data, fvars >>

\* the backend send of write (socket lines 39-44, serial 37-42)
PollSend ==
    /\ pc = "poll_send"
    /\ IF Backend(handle, is_open) # NoExc
       THEN Abort(Backend(handle, is_open))
       ELSE /\ pc' = "poll_read"
            /\ UNCHANGED << exc, outcomes, faults >>
    /\ UNCHANGED << args, now, start, ioTime, polls, sleeps, log, esr_str,
                    response, retval, tvars, fvars >>

\* the guard of read (socket lines 47-50, serial 45)
PollGuardRead ==
    /\ pc = "poll_read"
    /\ IF not_connected(kind, handle, is_open)
       THEN /\ Abort(ClosedError)
            /\ UNCHANGED << data, rpc >>
       ELSE /\ pc' = "poll_recv"
            /\ data' = <<>>
            /\ rpc' = "reading"
            /\ UNCHANGED << exc, outcomes, faults >>
    /\ UNCHANGED << args, now, start, ioTime, polls, sleeps, log, esr_str,
                    response, retval, kind, terminator, handle, is_open, rm,
                    scope, last, prev, fvars >>

\* variant: end-of-stream is reported as a closed connection
AtEndOfStream_closed(d) == [raise |-> ClosedError, text |-> Strip(d)]

\* the backend delivers no bytes (socket lines 54-55: `if not chunk:
\* break`, then line 61; serial line 48: readline() returns what it has):
\* read returns the text so far and raises nothing
AtEndOfStream(d) == [raise |-> NoExc, text |-> Strip(d)]

\* read returned the text of the bytes b (socket line 61, serial 48) and
\* the loop body goes on with it: lines 102-112, 126-136
PollReply(b, d) ==
    LET t == now + d
        reply == Strip(b)
        events == HandshakeCheck(reply, t - start, timeout)
    IN  /\ now' = t
        /\ ioTime' = ioTime + d
        /\ esr_str' = reply
        /\ outcomes' = outcomes \o events
        /\ pc' = IF events = <<>> THEN "sleep" ELSE "done"
        /\ exc' = IF events = <<>> THEN exc ELSE Raised(events[1], reply)
        /\ retval' = IF events # <<>> /\ events[Len(events)] = "completed"
                          /\ op = "query"
                     THEN QuerySafeReturn(response, reply)
                     ELSE retval
        /\ data' = b
        /\ UNCHANGED faults

\* one backend receive of read (socket lines 52-56: the loop loads
\* self.sock again for every recv; serial line 48: one readline): the
\* reply arrives whole, or (socket) its text first and its terminator with
\* the next recv, or the channel is at end-of-stream
PollRecv ==
    /\ pc = "poll_recv"
    /\ IF Backend(handle, is_open) # NoExc
       THEN /\ Abort(Backend(handle, is_open))
            /\ rpc' = "idle"
            /\ UNCHANGED << now, ioTime, esr_str, retval, data >>
       ELSE \/ /\ data = <<>>
               /\ \E reply \in AbortReplies, d \in minDelay..MaxIODelay :
                     PollReply(reply \o terminator, d)
               /\ rpc' = "idle"
            \/ /\ data = <<>>
               /\ kind = "socket"
               /\ \E reply \in AbortReplies \ { <<>> } : data' = reply
               /\ UNCHANGED << pc, now, ioTime, esr_str, retval, exc,
                               outcomes, faults, rpc >>
            \/ /\ data # <<>>
               /\ \E d \in minDelay..MaxIODelay : PollReply(data \o terminator, d)
               /\ rpc' = "idle"
            \/ /\ rpc' = "eos"
               /\ IF AtEndOfStream(data).raise # NoExc
                  THEN /\ Abort(AtEndOfStream(data).raise)
                       /\ UNCHANGED << now, ioTime, esr_str, retval, data >>
                  ELSE \E d \in minDelay..MaxIODelay : PollReply(data, d)
    /\ UNCHANGED << args, start, polls, sleeps, log, response, kind,
                    terminator, handle, is_open, rm, scope, last, prev, fvars >>

\* the other thread, disconnect() up to the backend close (socket lines
\* 29-31, serial 27-29), while the caller is inside the poll loop
DisconnectClose ==
    /\ pc \in PollPositions \cup {"sleep"}
    /\ handle = "obj"
    /\ is_open
    /\ is_open' = FALSE
    /\ prev' = Shift
    /\ last' = R("disconnect", "pending", IsConnected, 0, 1, 0, "none", "none", None)
    /\ UNCHANGED << kind, terminator, handle, rm, scope, rpc, data, evars, fvars >>

\* the other thread, the rest of disconnect(): self.sock = None (socket
\* line 34, serial 32)
DisconnectClear ==
    /\ last.call = "disconnect"
    /\ last.result = "pending"
    /\ handle' = "None"
    /\ last' = [last EXCEPT !.result = "ok"]
    /\ UNCHANGED << kind, terminator, is_open, rm, scope, prev, rpc, data,
                    evars, fvars >>

\* send(command, safe=True, timeout, interval) or query(...) is called on
\* a connected transport
SafeCall ==
    /\ pc = "idle"
    /\ handle = "obj"
    /\ is_open
    /\ \E o \in {"send", "query"}, t \in {0, MaxTimeout}, i \in 0..MaxInterval,
          m \in 0..MaxIODelay :
          /\ op' = o
          /\ command' = "*TRG"
          /\ safe' = TRUE
          /\ timeout' = t
          /\ interval' = i
          /\ minDelay' = m
          /\ pc' = IF o = "send" THEN "write_cmd" ELSE "query_cmd"
    /\ UNCHANGED << now, start, ioTime, polls, sleeps, log, esr_str, response,
                    outcomes, retval, exc, faults, tvars, fvars >>

\* between two invocations the transport is connected again
Reconnect ==
    /\ pc = "idle"
    /\ handle = "None"
    /\ Connect

AInit ==
    /\ EngineInit
    /\ FactoryParked
    /\ kind \in AbortVariants
    /\ terminator = CRLF
    /\ handle = "obj"
    /\ is_open = TRUE
    /\ rm = FALSE
    /\ scope = FALSE
    /\ last = NoCall
    /\ prev = NoPrev
    /\ rpc = "idle"
    /\ data = <<>>

ANext ==
    \/ SafeCall
    \/ Return
    \/ SendWrite
    \/ QueryCommand
    \/ WriteOpc
    \/ PollGuardWrite
    \/ PollSend
    \/ PollGuardRead
    \/ PollRecv
    \/ Sleep
    \/ DisconnectClose
    \/ DisconnectClear
    \/ Reconnect

SpecAbort == AInit /\ [][ANext]_vars

\* -- claims about the abort by disconnect

\* the other thread has begun or finished disconnect()
Disconnecting == last.call = "disconnect"

\* C31: once another thread has begun to disconnect the transport while a
\* safe send/query polls (timeout 0 included), the status query the call
\* is in, or the next one it starts, does not return a reply: it ends the
\* call with the Closed or the IOError error, wherever the other thread
\* stood when each step of the write and of the read ran.
C31_AbortByDisconnect ==
    [][(Disconnecting /\ pc \in PollPositions /\ pc' \notin PollPositions)
        => /\ pc' = "done"
           /\ exc'.type \in {"ConnectionClosedError", "ConnectionIOError"}]_vars

\* ------------------------------------------------------------------
\* Further claims about the completion handshake
\* ------------------------------------------------------------------

\* the last status reply is a number without bit value 2
ReplyIncomplete == ReplyParses /\ (ReplyVal \div 2) % 2 = 0

\* C32: a status reply without bit value 2, whatever its other bits (bit
\* value 1 included), does not end the poll loop: after it the call sleeps
\* and polls again, unless the timeout has run out; and the reply that
\* ends the handshake decides alone: if it is 2 the call is completed
\* without error, whatever the replies before it were (32 then 2 is a
\* success), otherwise the error carries the value of that reply only.
C32_OnlyBitTwoDecides ==
    /\ [](/\ (InCall /\ ~Faulted /\ ReplyIncomplete /\ pc = "done")
             => /\ outcomes = <<"timeout">>
                /\ timeout # 0
                /\ Elapsed > timeout
          /\ (InCall /\ ReplyIncomplete /\ timeout = 0)
             => (pc \in {"sleep", "poll"} \/ Faulted))
    /\ [][(pc = "poll" /\ pc' = "done" /\ ~Faulted' /\ ReplyParses'
              /\ ~ReplyIncomplete')
          => IF ReplyVal' = 2
             THEN /\ outcomes' = <<"completed">>
                  /\ exc' = NoExc
             ELSE /\ outcomes' = <<"status_error">>
                  /\ exc'.esr_value = ReplyVal']_vars

\* a first reply that did not end the loop, one sleep, then the reply 2
C32_Witness ==
    /\ pc = "done"
    /\ polls = 2
    /\ sleeps = 1
    /\ esr_str = <<"2">>
    /\ outcomes = <<"completed">>
    /\ exc = NoExc

\* the handshake of the invocation has ended (not by a transport error)
HandshakeEnded == pc = "done" /\ safe /\ ~Faulted

\* C33: a handshake never ends before its first status poll, a timeout is
\* raised only on a reply that lacks bit value 2, and a reply with bit
\* value 2 ends the handshake as completed or as status error however far
\* the elapsed time is past the timeout.
C33_PollBeforeTimeout ==
    /\ HandshakeEnded => (polls >= 1 /\ GotReply)
    /\ (HandshakeEnded /\ "timeout" \in Range(outcomes)) => ReplyIncomplete
    /\ (InCall /\ ReplyParses /\ ~ReplyIncomplete)
       => /\ pc = "done"
          /\ outcomes \in { <<"completed">>, <<"status_error">> }
          /\ exc.type # "TimeoutError"

\* the completing reply arrived after the timeout had run out
C33_Witness ==
    /\ pc = "done"
    /\ timeout # 0
    /\ Elapsed > timeout
    /\ esr_str = <<"2">>
    /\ outcomes = <<"completed">>
    /\ exc = NoExc

\* the read of a status poll ended at end-of-stream before any byte, or
\* with a line that holds the terminator only
EmptyReply ==
    /\ InCall
    /\ \/ polls > 0 /\ rpc = "eos" /\ data = <<>>
       \/ GotReply /\ data = terminator

\* C34: when the channel answers a status poll with end-of-stream or with
\* an empty line, the handshake ends with the parse failure, not with the
\* Closed or the IOError error, and the transport still reports
\* is_connected() true.
C34_EndOfStreamIsParseFailure ==
    EmptyReply
    => /\ pc = "done"
       /\ outcomes = <<"parse_error">>
       /\ exc.type = "SCPIError"
       /\ exc.esr_value = -1
       /\ exc.message.form = "Failed to parse ESR value"
       /\ faults = 0
       /\ handle = "obj"
       /\ (kind = "serial" => is_open)

\* end-of-stream on the second poll of a socket transport
C34_Witness ==
    /\ kind = "socket"
    /\ pc = "done"
    /\ polls = 2
    /\ rpc = "eos"
    /\ esr_str = <<>>
    /\ data = <<>>
    /\ outcomes = <<"parse_error">>
    /\ handle = "obj"

\* ------------------------------------------------------------------
\* connect() and disconnect() alone, the backend never failing
\* ------------------------------------------------------------------

\* connect() whose backend open, if any, succeeds
ConnectOk ==
    /\ Connect
    /\ last'.fault = "none"

\* disconnect() whose backend close, if any, succeeds
DisconnectOk ==
    /\ Disconnect
    /\ last'.fault = "none"

LNext == ConnectOk \/ DisconnectOk

SpecLifecycle == TInit /\ [][LNext]_vars

\* the transport holds a backend channel that is open
HoldsOpen == handle = "obj" /\ is_open

\* C35: in every variant, over connect and disconnect calls whose backend
\* calls succeed, the transport is connected exactly when the last call
\* was connect; a backend open happens only when the transport holds no
\* open channel, and disconnect closes the channel the transport holds,
\* so no open channel is dropped and at most one is open at a time.
C35_NoLeak ==
    /\ [](/\ last.call = "connect" => (IsConnected /\ HoldsOpen)
          /\ last.call = "disconnect" => (~IsConnected /\ ~HoldsOpen)
          /\ last.call = "none" => ~HoldsOpen)
    /\ [][/\ last'.dOpen = 1 => (~HoldsOpen /\ last'.call = "connect")
          /\ (HoldsOpen /\ ~HoldsOpen') => (last'.call = "disconnect" /\ last'.dClose = 1)
          /\ (HoldsOpen /\ HoldsOpen') => (last'.dOpen = 0 /\ last'.dClose = 0)]_vars

\* connect, disconnect, connect on a VISA transport
C35_Witness ==
    /\ kind = "visa"
    /\ last.call = "connect"
    /\ last.dOpen = 1
    /\ prev.call = "disconnect"
    /\ prev.connBefore
    /\ HoldsOpen

\* ------------------------------------------------------------------
\* Further claims about the Transport
\* ------------------------------------------------------------------

\* the sequence t occurs in s and ends before the end of s
OccursInside(s, t) ==
    \E i \in 1..(Len(s) - Len(t)) : SubSeq(s, i, i + Len(t) - 1) = t

\* C36: the string one read() of the socket transport returns holds at
\* most one response: the terminator does not occur inside it, whatever
\* the chunks the channel delivered (two responses in one chunk, bytes
\* after a terminator).
C36_OneResponsePerRead ==
    (kind = "socket" /\ last.call \in {"read", "query"} /\ last.result = "ok")
    => ~OccursInside(last.value, terminator)

\* ------------------------------------------------------------------
\* From the factory to the first use of the transport
\* ------------------------------------------------------------------

\* device configurations: none, and one per variant
BuildConfigs ==
    { Empty,
      MethodKey("socket")
          @@ Section("socket_params",
                     ("host" :> StrVal(<<"h0">>)) @@ ("port" :> IntVal(<<"5025">>))
                         @@ ("terminator" :> StrVal(<<"L", "F">>))),
      MethodKey("serial")
          @@ Section("serial_params", ("port" :> StrVal(<<"COM1">>))),
      MethodKey("visa")
          @@ Section("visa_params", ("address" :> StrVal(<<"GPIB0::1">>))) }

BuildKwargs == { Empty, ("terminator" :> StrVal(<<"l", "f">>)) }

\* the caller uses the transport the factory returned
UseConnect == made.state = "made" /\ Connect
UseEnter == made.state = "made" /\ Enter
UseDisconnect == made.state = "made" /\ Disconnect
UseExit == made.state = "made" /\ Exit
UseWrite == made.state = "made" /\ Write

BInit ==
    /\ EngineInit
    /\ TransportParked
    /\ config \in BuildConfigs
    /\ method \in Methods
    /\ kwargs \in BuildKwargs
    /\ made = NotMade
    /\ dev = "dmm"
    /\ devices = ("dmm" :> DeviceInfo("dmm", "DMMSCPI", <<"dmm", "config.json">>,
                                      <<"dmm">>, config))
    /\ typed_connects = ("dmm" :> TypedConnectFn("dmm", "DMMSCPI"))
    /\ stats = NoStats
    /\ rlast = NoRCall

BNext ==
    \/ CreateConnection
    \/ CreateRawConnection
    \/ ConnectDevice
    \/ UseConnect
    \/ UseEnter
    \/ UseDisconnect
    \/ UseExit
    \/ UseWrite

SpecBuild == BInit /\ [][BNext]_vars

\* C37: when connect(dev=...), connect(method=...), create_connection or
\* create_raw_connection returns a transport (bare or inside the wrapper),
\* the transport is not connected and no backend open has been made; its
\* channel is opened only by connect() or by entering its scope.
C37_BuiltClosed ==
    /\ []((made.state = "made" /\ last.call = "none")
           => /\ handle = "None"
              /\ ~is_open
              /\ ~rm
              /\ last.dOpen = 0
              /\ kind = made.variant)
    /\ [][/\ made'.state # made.state => last'.call = "none"
          /\ (handle = "None" /\ handle' # "None")
             => (last'.call \in {"connect", "enter"} /\ last'.dOpen = 1)]_vars

\* connect(dev="dmm") returned the wrapper around a socket transport that
\* nobody has connected yet
C37_Witness ==
    /\ made.state = "made"
    /\ made.call = "connect"
    /\ made.wrapper = "DMMSCPI"
    /\ made.variant = "socket"
    /\ kind = "socket"
    /\ terminator = LF
    /\ last.call = "none"
    /\ handle = "None"

\* ------------------------------------------------------------------
\* Further claims about the registry
\* ------------------------------------------------------------------

\* C38: whatever register, auto_discover and clear_registry calls were
\* made, the names that have a descriptor are the names that have a typed
\* connect function; after clear_registry there is no descriptor, no typed
\* connect function and no discovery statistics.
C38_RegistryInStep ==
    /\ DOMAIN devices = DOMAIN typed_connects
    /\ \A n \in DOMAIN devices :
          /\ devices[n].name = n
          /\ typed_connects[n].name = n
          /\ typed_connects[n].device_class = devices[n].device_class
    /\ rlast.call = "clear_registry"
       => /\ DOMAIN devices = {}
          /\ DOMAIN typed_connects = {}
          /\ stats = NoStats

\* two discovered devices and one registered by hand after the scan
C38_Witness ==
    /\ rlast.call = "register"
    /\ stats.set
    /\ DOMAIN devices = {"dmm", "PSU", "device"}
    /\ DOMAIN typed_connects = {"dmm", "PSU", "device"}

\* the last registry operation was a discovery scan that returned
ScanDone == rlast.call = "auto_discover" /\ rlast.raised = "none"

\* the candidates a scan of the plugins directory attempts
Candidates == { c \in PluginEntries : c.is_dir /\ c.name # ".git" }

\* C39: after a discovery scan that returned, attempted = successful +
\* failed; after a scan of the plugins directory there are at most failed
\* recorded errors, the candidates
\* without a recorded error are the ones counted successful, and each of
\* them is in the registry; a scan of a location that does not exist
\* records one error, attempts nothing and leaves the registry as it was.
C39_DiscoveryStats ==
    /\ [](ScanDone
           => /\ stats.set
              /\ stats.attempted = stats.successful + stats.failed
              /\ rlast.name = "lab_instruments/plugins"
                 => /\ Len(stats.errors) <= stats.failed
                    /\ stats.attempted = Cardinality(Candidates)
                    /\ stats.successful
                         = Cardinality({ c \in Candidates : c.name \notin ErrorNames })
                    /\ \A c \in Candidates :
                          c.name \notin ErrorNames => c.name \in DOMAIN devices
              /\ rlast.name # "lab_instruments/plugins"
                 => /\ Len(stats.errors) = 1
                    /\ stats.errors[1][2] = "Plugins directory not found"
                    /\ stats.attempted = 0
                    /\ stats.successful = 0
                    /\ stats.failed = 0)
    /\ [][(rlast' # rlast /\ rlast'.call = "auto_discover"
              /\ rlast'.name # "lab_instruments/plugins")
          => UNCHANGED << devices, typed_connects >>]_vars

\* a scan of a missing location made after a scan that registered two
\* devices
C39_Witness ==
    /\ ScanDone
    /\ rlast.name = "nowhere"
    /\ Len(stats.errors) = 1
    /\ stats.attempted = 0
    /\ DOMAIN devices = {"dmm", "PSU"}
====
